---------------------------- MODULE Spec2Model ----------------------------
(***************************************************************************)
(* A model of lib/libvcc/vmodtool.py: one run of the VMOD interface        *)
(* compiler.  Text is a TLA+ string (a sequence of characters), a Python   *)
(* list is a sequence, a Python dict is the sequence of its <<key, value>> *)
(* pairs in insertion order, and an attribute that may hold None is        *)
(* None (<<>>) or Some(x) (<<x>>).                                         *)
(***************************************************************************)
EXTENDS Integers, Sequences, FiniteSets, TLC

VARIABLES
    opts,       \* the command line options: [strict, boilerplate]
    v,          \* the vcc object (the processing context of the run)
    pc,         \* where runmain stands
    chunks,     \* the declaration chunks vcc.parse has popped from s, in order
    exitcause,  \* why the process ended: "none", "error", "strict", "exception"
    tmpfiles,   \* the names that exist as <name>.tmp
    renamed,    \* the final names os.rename has put in place
    arglist,    \* the input document: the argument list its declarations carry
    hfile,      \* what mkhfile wrote for the stanzas of contents, one entry each
    lasttoks,   \* the tokens of the chunk vcc.parse popped last
    h,          \* the hash object of vcc.parse
    written,    \* what the generators wrote besides: [rst, enums, json, vmod_data]
    first       \* what an earlier run on the same input produced, if there was one

vars ==
    <<opts, v, pc, chunks, exitcause, tmpfiles, renamed, arglist, hfile,
      lasttoks, h, written, first>>

-----------------------------------------------------------------------------
(* Bounds of the model. *)

\* Longest document (number of $-declarations) the parser is fed.
MaxDecls == 3

\* Longest document of Object, Method and neighbouring declarations.
MaxAttachDecls == 4

\* Longest argument list of a prototype declaration.
MaxArgs == 4

-----------------------------------------------------------------------------
(* Python values. *)

None == <<>>

Some(x) == <<x>>

Get(o) == o[1]

Range(s) == {s[i] : i \in 1..Len(s)}

\* The i-th character of a string (1-based), as a string of length one.
Char(s, i) == SubSeq(s, i, i)

DictHas(d, k) == \E i \in 1..Len(d) : d[i][1] = k

DictGet(d, k) ==
    IF DictHas(d, k)
    THEN Some(d[CHOOSE i \in 1..Len(d) : d[i][1] = k][2])
    ELSE None

\* d[k] = val on a list of pairs that keeps every assignment
DictAppend(d, k, val) == Append(d, <<k, val>>)

DictSet(d, k, val) ==
    IF DictHas(d, k)
    THEN [i \in 1..Len(d) |-> IF d[i][1] = k THEN <<k, val>> ELSE d[i]]
    ELSE Append(d, <<k, val>>)

DictKeys(d) == [i \in 1..Len(d) |-> d[i][1]]

-----------------------------------------------------------------------------
(* Character classes of the regular expressions. *)

Lower == {"a", "b", "c", "d", "e", "f", "g", "h", "i", "j", "k", "l", "m",
          "n", "o", "p", "q", "r", "s", "t", "u", "v", "w", "x", "y", "z"}

Upper == {"A", "B", "C", "D", "E", "F", "G", "H", "I", "J", "K", "L", "M",
          "N", "O", "P", "Q", "R", "S", "T", "U", "V", "W", "X", "Y", "Z"}

Digit == {"0", "1", "2", "3", "4", "5", "6", "7", "8", "9"}

\* [a-zA-Z0-9_]*
WordTail(s, from) ==
    \A i \in from..Len(s) : Char(s, i) \in Lower \cup Upper \cup Digit \cup {"_"}

\* ^[a-zA-Z.][a-zA-Z0-9_]*$
MatchName(s) ==
    /\ Len(s) >= 1
    /\ Char(s, 1) \in Lower \cup Upper \cup {"."}
    /\ WordTail(s, 2)

\* ^[a-zA-Z_][a-zA-Z0-9_]*$
MatchCName(s) ==
    /\ Len(s) >= 1
    /\ Char(s, 1) \in Lower \cup Upper \cup {"_"}
    /\ WordTail(s, 2)

\* ^\.?[a-zA-Z_][a-zA-Z0-9_]*$
MatchAliasName(s) ==
    \/ MatchCName(s)
    \/ Len(s) >= 2 /\ Char(s, 1) = "." /\ MatchCName(SubSeq(s, 2, Len(s)))

\* ^[a-zA-Z_][a-zA-Z0-9_]*\.[a-zA-Z_][a-zA-Z0-9_]*$
MatchObjMethod(s) ==
    \E i \in 2..(Len(s) - 1) :
        /\ Char(s, i) = "."
        /\ MatchCName(SubSeq(s, 1, i - 1))
        /\ MatchCName(SubSeq(s, i + 1, Len(s)))

\* str.replace(".", "_")
RECURSIVE ReplaceDot(_)
ReplaceDot(s) ==
    IF s = "" THEN ""
    ELSE (IF Head(s) = "." THEN "_" ELSE Head(s)) \o ReplaceDot(Tail(s))

\* str.split('.')[0]
RECURSIVE SplitDotFirst(_)
SplitDotFirst(s) ==
    IF s = "" \/ Head(s) = "." THEN ""
    ELSE Head(s) \o SplitDotFirst(Tail(s))

\* str.startswith(p)
StartsWith(s, p) == Len(s) >= Len(p) /\ SubSeq(s, 1, Len(p)) = p

-----------------------------------------------------------------------------
(* The value kinds. *)

PRIVS ==
    << <<"PRIV_CALL", "struct vmod_priv *">>,
       <<"PRIV_VCL",  "struct vmod_priv *">>,
       <<"PRIV_TASK", "struct vmod_priv *">>,
       <<"PRIV_TOP",  "struct vmod_priv *">> >>

\* CTYPES, after CTYPES.update(PRIVS)
CTYPES ==
    << <<"ACL", "VCL_ACL">>,
       <<"BACKEND", "VCL_BACKEND">>,
       <<"BLOB", "VCL_BLOB">>,
       <<"BODY", "VCL_BODY">>,
       <<"BOOL", "VCL_BOOL">>,
       <<"BYTES", "VCL_BYTES">>,
       <<"DURATION", "VCL_DURATION">>,
       <<"ENUM", "VCL_ENUM">>,
       <<"HEADER", "VCL_HEADER">>,
       <<"HTTP", "VCL_HTTP">>,
       <<"INT", "VCL_INT">>,
       <<"IP", "VCL_IP">>,
       <<"PROBE", "VCL_PROBE">>,
       <<"REAL", "VCL_REAL">>,
       <<"REGEX", "VCL_REGEX">>,
       <<"STEVEDORE", "VCL_STEVEDORE">>,
       <<"STRANDS", "VCL_STRANDS">>,
       <<"STRING", "VCL_STRING">>,
       <<"SUB", "VCL_SUB">>,
       <<"TIME", "VCL_TIME">>,
       <<"VOID", "VCL_VOID">> >> \o PRIVS

is_quoted(txt) ==
    /\ Len(txt) > 2
    /\ Char(txt, 1) = Char(txt, Len(txt))
    /\ Char(txt, 1) \in {"\"", "'"}

unquote(txt) == SubSeq(txt, 2, Len(txt) - 1)

-----------------------------------------------------------------------------
(* class CType and class arg.  Every parsing operator returns a record     *)
(* whose err field says how it ended: "ok", "error" (err() with            *)
(* warn=False, or any err() under --strict: exit(1)), or "exception" (an   *)
(* uncaught Python exception: IndexError, AssertionError, TypeError).      *)

\* add_spec's while loop, entered after the "{" was popped
RECURSIVE add_spec_loop(_, _, _)
add_spec_loop(wl, spec, enums) ==
    IF wl = <<>>
    THEN [err |-> "exception", wl |-> wl, spec |-> spec, enums |-> enums]
    ELSE LET x0 == Head(wl)
             x  == IF is_quoted(x0) THEN unquote(x0) ELSE x0
             w1 == Tail(wl)
             spec1  == Append(spec, x)
             enums1 == DictSet(enums, x, TRUE)
         IN  IF x = ""
             THEN [err |-> "exception", wl |-> w1, spec |-> spec, enums |-> enums]
             ELSE IF w1 = <<>>
             THEN [err |-> "exception", wl |-> w1, spec |-> spec1, enums |-> enums1]
             ELSE IF Head(w1) = "}"
             THEN [err |-> "ok", wl |-> Tail(w1), spec |-> spec1, enums |-> enums1]
             ELSE IF Head(w1) # ","
             THEN [err |-> "exception", wl |-> Tail(w1), spec |-> spec1, enums |-> enums1]
             ELSE add_spec_loop(Tail(w1), spec1, enums1)

add_spec(wl, enums) == add_spec_loop(Tail(wl), <<>>, enums)

CType(wl, enums) ==
    IF wl = <<>>
    THEN [err |-> "exception", wl |-> wl, enums |-> enums, t |-> None]
    ELSE LET vt == Head(wl)
             w1 == Tail(wl)
             ct == DictGet(CTYPES, vt)
             t0 == [vt |-> vt, ct |-> ct, nm |-> None, defval |-> None,
                    spec |-> None, opt |-> FALSE, nm2 |-> None]
         IN  IF ct = None
             THEN [err |-> "error", wl |-> w1, enums |-> enums, t |-> Some(t0)]
             ELSE IF w1 # <<>> /\ Head(w1) = "{"
             THEN IF vt # "ENUM"
                  THEN [err |-> "error", wl |-> w1, enums |-> enums, t |-> Some(t0)]
                  ELSE LET r == add_spec(w1, enums)
                       IN  [err |-> r.err, wl |-> r.wl, enums |-> r.enums,
                            t |-> Some([t0 EXCEPT !.spec = Some(r.spec)])]
             ELSE [err |-> "ok", wl |-> w1, enums |-> enums, t |-> Some(t0)]

\* arg.__init__ after super().__init__: c is what CType.__init__ returned
arg_named(c, argnames, end) ==
    LET fail(e) == [err |-> e, wl |-> c.wl, enums |-> c.enums,
                    argnames |-> argnames, t |-> c.t]
        x  == Head(c.wl)
        w1 == Tail(c.wl)
        t1 == [Get(c.t) EXCEPT !.nm = Some(x)]
        x3 == Head(Tail(w1))
        dv == IF Get(c.t).vt = "ENUM" /\ is_quoted(x3) THEN unquote(x3) ELSE x3
    IN  IF c.err # "ok" THEN fail(c.err)
        ELSE IF c.wl = <<>> THEN fail("exception")
        ELSE IF x = end
        THEN [err |-> "ok", wl |-> c.wl, enums |-> c.enums,
              argnames |-> argnames, t |-> c.t]
        ELSE IF DictHas(argnames, x) THEN fail("error")
        ELSE IF w1 = <<>> THEN fail("exception")
        ELSE IF Head(w1) = end
        THEN [err |-> "ok", wl |-> w1, enums |-> c.enums,
              argnames |-> DictSet(argnames, x, TRUE), t |-> Some(t1)]
        ELSE IF Head(w1) # "=" THEN fail("error")
        ELSE IF Tail(w1) = <<>> THEN fail("exception")
        ELSE [err |-> "ok", wl |-> Tail(Tail(w1)), enums |-> c.enums,
              argnames |-> DictSet(argnames, x, TRUE),
              t |-> Some([t1 EXCEPT !.defval = Some(dv)])]

\* arg.__init__: parse the front of the word list into an argument
arg(wl, argnames, enums, end) == arg_named(CType(wl, enums), argnames, end)

-----------------------------------------------------------------------------
(* class ProtoType. *)

\* "arg%d" % n
ToDecimal(n) ==
    IF n < 10 THEN Char("0123456789", n + 1)
    ELSE Char("0123456789", (n \div 10) + 1) \o Char("0123456789", (n % 10) + 1)

\* ProtoType.cname(pfx=False) of a name
cname(name) == ReplaceDot(name)

\* t.nm2 as ProtoType.__init__ sets it for the n-th argument
with_nm2(t, n) ==
    [t EXCEPT !.nm2 = IF t.nm = None THEN Some("arg" \o ToDecimal(n)) ELSE t.nm]

\* The while loop of ProtoType.__init__ over the argument words: proto_args
\* is the head of a turn, proto_arg the rest of the turn once arg() returned a.
RECURSIVE proto_args(_, _, _, _, _, _)
RECURSIVE proto_arg(_, _, _, _, _)
proto_arg(a, isopt, n, args, argstruct) ==
    LET res(e) == [err |-> e, enums |-> a.enums, args |-> args,
                   argstruct |-> argstruct]
    IN  IF a.err # "ok" THEN res(a.err)
        ELSE IF isopt /\ Get(a.t).nm = None THEN res("error")
        ELSE IF isopt /\ a.wl = <<>> THEN res("exception")
        ELSE IF isopt /\ Head(a.wl) # "]" THEN res("error")
        ELSE IF Get(a.t).vt = "VOID"
        THEN [err |-> "error", enums |-> a.enums, args |-> args,
              argstruct |-> argstruct \/ isopt]
        ELSE proto_args(IF isopt THEN Tail(a.wl) ELSE a.wl, n, a.argnames,
                        a.enums,
                        Append(args, with_nm2([Get(a.t) EXCEPT !.opt = isopt], n)),
                        argstruct \/ isopt)

proto_args(wl, n0, names, enums, args, argstruct) ==
    LET res(e) == [err |-> e, enums |-> enums, args |-> args,
                   argstruct |-> argstruct]
        w1 == Tail(wl)
        isopt == Head(w1) = "["
    IN  IF wl = <<>> THEN res("ok")
        ELSE IF Head(wl) # "," THEN res("error")
        ELSE IF w1 = <<>> THEN res("ok")
        ELSE proto_arg(arg(IF isopt THEN Tail(w1) ELSE w1, names, enums,
                           IF isopt THEN "]" ELSE ","),
                       isopt, n0 + 1, args, argstruct)

\* ProtoType.__init__ from the argument words on: p holds the names, wl the
\* words after the name
ProtoType_args(p, wl, enums) ==
    LET fail(e) == [err |-> e, enums |-> enums, proto |-> p]
        wl2 == [i \in 1..Len(wl) |-> IF i = 1 \/ i = Len(wl) THEN "," ELSE wl[i]]
        done(a) == [err |-> a.err, enums |-> a.enums,
                    proto |-> [p EXCEPT !.args = a.args,
                                        !.argstruct = a.argstruct]]
    IN  IF Len(wl) = 2 /\ wl[1] = "(" /\ wl[2] = ")"
        THEN [err |-> "ok", enums |-> enums, proto |-> p]
        ELSE IF wl = <<>> THEN fail("exception")
        ELSE IF wl[1] # "(" THEN fail("error")
        ELSE IF wl[Len(wl)] # ")" THEN fail("error")
        ELSE done(proto_args(wl2, 0, <<>>, enums, <<>>, FALSE))

\* ProtoType.__init__ from self.bname on: r is what CType.__init__ returned
\* for the return value
ProtoType_named(stclass, r, prefix) ==
    LET p0 == [st |-> stclass, obj |-> None, args |-> <<>>,
               argstruct |-> FALSE, retval |-> r.t, bname |-> "", name |-> ""]
        fail(e) == [err |-> e, enums |-> r.enums, proto |-> p0]
        bname == Head(r.wl)
        name  == prefix \o bname
    IN  IF r.err # "ok" THEN fail(r.err)
        ELSE IF r.wl = <<>> THEN fail("exception")
        ELSE IF ~MatchName(bname) THEN fail("error")
        ELSE IF ~MatchCName(cname(name)) THEN fail("error")
        ELSE ProtoType_args([p0 EXCEPT !.bname = bname, !.name = name],
                            Tail(r.wl), r.enums)

\* ProtoType.__init__(st, retval, prefix): st is given by its class name
\* and its tokens, st.vcc.enums by enums.
ProtoType(stclass, toks, retval, prefix, enums) ==
    ProtoType_named(stclass,
                    IF retval THEN CType(Tail(toks), enums)
                    ELSE [CType(<<"VOID">>, enums) EXCEPT !.wl = Tail(toks)],
                    prefix)

-----------------------------------------------------------------------------
(* vcc.tokenize, with the default seps and quotes. *)

Seps == {"[", "]", "(", ")", "{", "}", ",", "="}

Quotes == {"\"", "'"}

\* str.isspace() on the characters a declaration line can hold
IsSpace(c) == c \in {" ", "\t", "\n", "\r", "\f"}

\* out[-1] += c
AddToLast(out, c) == [out EXCEPT ![Len(out)] = @ \o c]

\* one iteration of the loop that lets a quote met inside a token go on
\* with that token
tokenize_step_glued(s, c) ==
    IF s.quote # None /\ c = Get(s.quote)
    THEN [quote |-> None, out |-> AddToLast(s.out, c), inside |-> FALSE]
    ELSE IF s.quote # None
    THEN [s EXCEPT !.out = AddToLast(s.out, c)]
    ELSE IF IsSpace(c)
    THEN [s EXCEPT !.inside = FALSE]
    ELSE IF c \in Seps
    THEN [s EXCEPT !.out = Append(s.out, c), !.inside = FALSE]
    ELSE IF c \in Quotes
    THEN [s EXCEPT !.quote = Some(c),
                   !.out = IF s.inside THEN AddToLast(s.out, c)
                           ELSE Append(s.out, c)]
    ELSE IF s.inside
    THEN [s EXCEPT !.out = AddToLast(s.out, c)]
    ELSE [s EXCEPT !.out = Append(s.out, c), !.inside = TRUE]

\* one iteration of the while loop of tokenize on the character c; s holds
\* the loop's variables, quote being None or Some(the open quote)
tokenize_step(s, c) ==
    IF s.quote # None /\ c = Get(s.quote)
    THEN [quote |-> None, out |-> AddToLast(s.out, c), inside |-> FALSE]
    ELSE IF s.quote # None
    THEN [s EXCEPT !.out = AddToLast(s.out, c)]
    ELSE IF IsSpace(c)
    THEN [s EXCEPT !.inside = FALSE]
    ELSE IF c \in Seps
    THEN [s EXCEPT !.out = Append(s.out, c), !.inside = FALSE]
    ELSE IF c \in Quotes
    THEN [s EXCEPT !.quote = Some(c), !.out = Append(s.out, c)]
    ELSE IF s.inside
    THEN [s EXCEPT !.out = AddToLast(s.out, c)]
    ELSE [s EXCEPT !.out = Append(s.out, c), !.inside = TRUE]

\* the iterations of the while loop of tokenize on txt[lo..hi], from s
\* (the first test has s evaluated before the later iterations are)
RECURSIVE tokenize_loop(_, _, _, _)
tokenize_loop(txt, s, lo, hi) ==
    IF Len(s.out) >= 0 /\ lo > hi THEN s
    ELSE IF lo = hi THEN tokenize_step(s, Char(txt, lo))
    ELSE tokenize_loop(txt, tokenize_loop(txt, s, lo, (lo + hi) \div 2),
                       (lo + hi) \div 2 + 1, hi)

tokenize(txt) ==
    tokenize_loop(txt, [quote |-> None, out |-> <<>>, inside |-> FALSE],
                  1, Len(txt)).out

-----------------------------------------------------------------------------
(* class Stanza. *)

\* str.split('\n')
RECURSIVE SplitLines(_, _)
SplitLines(s, cur) ==
    IF s = "" THEN <<cur>>
    ELSE IF Head(s) = "\n" THEN <<cur>> \o SplitLines(Tail(s), "")
    ELSE SplitLines(Tail(s), cur \o Head(s))

\* not line.strip()
IsBlank(line) == \A i \in 1..Len(line) : IsSpace(Char(line, i))

\* sep.join(l)
RECURSIVE Join(_, _)
Join(sep, l) ==
    IF l = <<>> THEN ""
    ELSE IF Len(l) = 1 THEN l[1]
    ELSE l[1] \o sep \o Join(sep, Tail(l))

\* "%s" % x for an attribute that may hold None
Str(o) == IF o = None THEN "None" ELSE Get(o)

\* Stanza.__init__ up to the call of self.parse(): the documentation text
\* loses its leading and trailing blank lines.
RECURSIVE DropLeadingBlank(_)
DropLeadingBlank(doc) ==
    IF doc # <<>> /\ IsBlank(Head(doc)) THEN DropLeadingBlank(Tail(doc)) ELSE doc

RECURSIVE DropTrailingBlank(_)
DropTrailingBlank(doc) ==
    IF doc # <<>> /\ IsBlank(doc[Len(doc)])
    THEN DropTrailingBlank(SubSeq(doc, 1, Len(doc) - 1)) ELSE doc

Stanza(class, toks, docstr) ==
    [class |-> class, toks |-> toks,
     doc |-> DropTrailingBlank(DropLeadingBlank(SplitLines(docstr, ""))),
     rstlbl |-> None, null_ok |-> FALSE, methods |-> None, proto |-> None,
     init |-> None, fini |-> None, event_func |-> None, pfx |-> None,
     sym_alias |-> None, sym_name |-> None, doc_alias |-> None,
     doc_name |-> None]

\* err(txt, warn) paying no attention to --strict
err_lenient(strict, warn) ==
    IF ~warn THEN "error" ELSE "ok"

\* err(txt, warn): exit(1) under --strict or with warn=False, else a warning.
\* "strict" is the exit that only --strict turns a warning into.
err(strict, warn) ==
    IF ~warn THEN "error" ELSE IF strict THEN "strict" ELSE "ok"

-----------------------------------------------------------------------------
(* The stanza classes' parse methods.  Each takes the vcc object, the      *)
(* stanza Stanza.__init__ built and opts.strict, and returns [err, vcc]:   *)
(* the vcc object as the method left it, and how the method ended.         *)

ModuleStanza_parse(vcc, st, strict) ==
    LET toks == st.toks
        desc == IF Len(toks) = 4 /\ is_quoted(toks[4]) THEN unquote(toks[4])
                ELSE Join(" ", SubSeq(toks, 4, Len(toks)))
        self == [st EXCEPT !.rstlbl = Some("vmod_" \o toks[2] \o "(3)")]
    IN  IF Len(toks) < 4 THEN [err |-> "error", vcc |-> vcc]
        ELSE [err |-> "ok",
              vcc |-> [vcc EXCEPT !.modname = Some(toks[2]),
                                  !.mansection = Some(toks[3]),
                                  !.moddesc = Some(desc),
                                  !.contents = Append(@, self)]]

ABIStanza_parse(vcc, st, strict) ==
    LET toks == st.toks
        abi == DictGet(<< <<"strict", TRUE>>, <<"vrt", FALSE>> >>, toks[2])
        v1 == [vcc EXCEPT !.strict_abi = abi]
        e == IF abi = None THEN err(strict, TRUE) ELSE "ok"
        v2 == [v1 EXCEPT !.contents = Append(@, st)]
    IN  IF Len(toks) # 2 THEN [err |-> "error", vcc |-> vcc]
        ELSE IF e # "ok" THEN [err |-> e, vcc |-> v1]
        ELSE IF abi = None \/ abi = Some(FALSE)
        THEN [err |-> "ok",
              vcc |-> [v2 EXCEPT !.vrt_major = "VRT_MAJOR_VERSION",
                                 !.vrt_minor = "VRT_MINOR_VERSION"]]
        ELSE [err |-> "ok", vcc |-> v2]

PrefixStanza_parse(vcc, st, strict) ==
    IF Len(st.toks) # 2 THEN [err |-> "error", vcc |-> vcc]
    ELSE [err |-> "ok",
          vcc |-> [vcc EXCEPT !.sympfx = st.toks[2] \o "_",
                              !.contents = Append(@, st)]]

SynopsisStanza_parse(vcc, st, strict) ==
    LET toks == st.toks
        syn == DictGet(<< <<"auto", TRUE>>, <<"manual", FALSE>> >>, toks[2])
        v1 == [vcc EXCEPT !.auto_synopsis = syn]
        e == IF syn = None THEN err(strict, TRUE) ELSE "ok"
    IN  IF Len(toks) # 2 THEN [err |-> "error", vcc |-> vcc]
        ELSE IF e # "ok" THEN [err |-> e, vcc |-> v1]
        ELSE [err |-> "ok", vcc |-> [v1 EXCEPT !.contents = Append(@, st)]]

EventStanza_parse(vcc, st, strict) ==
    IF Len(st.toks) # 2 THEN [err |-> "error", vcc |-> vcc]
    ELSE [err |-> "ok",
          vcc |-> [vcc EXCEPT !.contents =
                       Append(@, [st EXCEPT !.event_func = Some(st.toks[2])])]]

\* FunctionStanza.parse once ProtoType(self) returned r
FunctionStanza_done(vcc, st, r) ==
    LET v1 == [vcc EXCEPT !.enums = r.enums]
        self == [st EXCEPT !.proto = Some(r.proto),
                           !.rstlbl = Some(Str(vcc.modname) \o "." \o
                                           r.proto.name \o "()")]
    IN  IF r.err # "ok" THEN [err |-> r.err, vcc |-> v1]
        ELSE [err |-> "ok", vcc |-> [v1 EXCEPT !.contents = Append(@, self)]]

FunctionStanza_parse(vcc, st, strict) ==
    FunctionStanza_done(vcc, st,
        ProtoType("FunctionStanza", st.toks, TRUE, "", vcc.enums))

\* ObjectStanza.parse that leaves fini.argstruct as copy.copy made it
ObjectStanza_done_nofini(vcc, st, marked, r) ==
    LET v1 == [vcc EXCEPT !.enums = r.enums]
        proto == [r.proto EXCEPT !.obj = Some("x" \o r.proto.name)]
        init == [proto EXCEPT !.name = @ \o "__init"]
        fini == [proto EXCEPT !.name = @ \o "__fini", !.args = <<>>]
        self == [st EXCEPT !.null_ok = marked,
                           !.proto = Some(proto), !.init = Some(init),
                           !.fini = Some(fini),
                           !.rstlbl = Some(Str(vcc.modname) \o "." \o
                                           proto.name \o "()"),
                           !.methods = Some(<<>>)]
    IN  IF r.err # "ok" THEN [err |-> r.err, vcc |-> v1]
        ELSE [err |-> "ok", vcc |-> [v1 EXCEPT !.contents = Append(@, self)]]

\* ObjectStanza.parse once ProtoType(self, retval=False) returned r
ObjectStanza_done(vcc, st, marked, r) ==
    LET v1 == [vcc EXCEPT !.enums = r.enums]
        proto == [r.proto EXCEPT !.obj = Some("x" \o r.proto.name)]
        init == [proto EXCEPT !.name = @ \o "__init"]
        fini == [proto EXCEPT !.name = @ \o "__fini", !.argstruct = FALSE,
                              !.args = <<>>]
        self == [st EXCEPT !.null_ok = marked,
                           !.proto = Some(proto), !.init = Some(init),
                           !.fini = Some(fini),
                           !.rstlbl = Some(Str(vcc.modname) \o "." \o
                                           proto.name \o "()"),
                           !.methods = Some(<<>>)]
    IN  IF r.err # "ok" THEN [err |-> r.err, vcc |-> v1]
        ELSE [err |-> "ok", vcc |-> [v1 EXCEPT !.contents = Append(@, self)]]

\* ObjectStanza.parse after self.toks.pop(1) took the NULL_OK marker away
ObjectStanza_marked(vcc, st, marked) ==
    ObjectStanza_done(vcc, st, marked,
        ProtoType("ObjectStanza", st.toks, FALSE, "", vcc.enums))

ObjectStanza_parse(vcc, st, strict) ==
    IF Len(st.toks) < 2 THEN [err |-> "exception", vcc |-> vcc]
    ELSE IF st.toks[2] = "NULL_OK"
    THEN ObjectStanza_marked(vcc,
             [st EXCEPT !.toks = <<st.toks[1]>> \o SubSeq(st.toks, 3, Len(st.toks))],
             TRUE)
    ELSE ObjectStanza_marked(vcc, st, FALSE)

\* MethodStanza.parse once ProtoType(self, prefix=self.pfx) returned r;
\* p = vcc.contents[n] is the ObjectStanza the method goes to
MethodStanza_done(vcc, st, n, pfx, r) ==
    LET v1 == [vcc EXCEPT !.enums = r.enums]
        self == [st EXCEPT !.pfx = Some(pfx),
                           !.proto = Some([r.proto EXCEPT
                                               !.obj = Some("x" \o pfx)]),
                           !.rstlbl = Some("x" \o r.proto.name \o "()")]
    IN  IF r.err # "ok" THEN [err |-> r.err, vcc |-> v1]
        ELSE IF ~StartsWith(r.proto.bname, ".") THEN [err |-> "error", vcc |-> v1]
        ELSE [err |-> "ok",
              vcc |-> [v1 EXCEPT !.contents[n].methods =
                                     Some(Append(Get(@), self))]]

\* MethodStanza.parse with p = self.vcc.contents[-1] an ObjectStanza
MethodStanza_attach(vcc, st, n, pfx) ==
    MethodStanza_done(vcc, st, n, pfx,
        ProtoType("MethodStanza", st.toks, TRUE, pfx, vcc.enums))

\* the index of the last ObjectStanza of contents, 0 when there is none
LastObject(vcc) ==
    LET objs == {i \in 1..Len(vcc.contents) :
                    vcc.contents[i].class = "ObjectStanza"}
    IN  IF objs = {} THEN 0 ELSE CHOOSE i \in objs : \A j \in objs : j <= i

\* MethodStanza.parse taking for p the last ObjectStanza of contents
\* rather than contents[-1]
MethodStanza_parse_lastobj(vcc, st, strict) ==
    IF LastObject(vcc) = 0 THEN [err |-> "exception", vcc |-> vcc]
    ELSE MethodStanza_attach(vcc, st, LastObject(vcc),
                             Get(vcc.contents[LastObject(vcc)].proto).name)

MethodStanza_parse(vcc, st, strict) ==
    IF vcc.contents = <<>> THEN [err |-> "exception", vcc |-> vcc]
    ELSE IF vcc.contents[Len(vcc.contents)].class # "ObjectStanza"
    THEN [err |-> "exception", vcc |-> vcc]
    ELSE MethodStanza_attach(vcc, st, Len(vcc.contents),
                             Get(vcc.contents[Len(vcc.contents)].proto).name)

\* AliasStanza.find_symbol returning the last symbol it looked at when
\* none matches
find_symbol_last(tbl, name) ==
    LET hits == {i \in 1..Len(tbl) :
                    tbl[i].proto # None /\ Get(tbl[i].proto).name = name}
    IN  IF hits # {} THEN Some(tbl[CHOOSE i \in hits : \A j \in hits : i <= j])
        ELSE IF tbl = <<>> THEN None
        ELSE Some(tbl[Len(tbl)])

\* AliasStanza.find_symbol: None when err() ended the run, else Some(sym).
\* tbl is a list; the caller sees to a tbl of None (a TypeError).
find_symbol(tbl, name) ==
    LET hits == {i \in 1..Len(tbl) :
                    tbl[i].proto # None /\ Get(tbl[i].proto).name = name}
    IN  IF hits = {} THEN None
        ELSE Some(tbl[CHOOSE i \in hits : \A j \in hits : i <= j])

AliasStanza_parse(vcc, st, strict) ==
    LET toks == st.toks
        dotted == Char(toks[2], 1) = "."
        obj_name == SplitDotFirst(toks[3])
        obj == find_symbol(vcc.contents, obj_name)
        self == IF dotted
                THEN [st EXCEPT !.sym_alias = Some(obj_name \o toks[2]),
                                !.doc_alias = Some("x" \o obj_name \o toks[2]),
                                !.sym_name = Some(toks[3]),
                                !.doc_name = Some("x" \o toks[3])]
                ELSE [st EXCEPT !.sym_alias = Some(toks[2]),
                                !.doc_alias = Some(toks[2]),
                                !.sym_name = Some(toks[3]),
                                !.doc_name = Some(toks[3])]
        done == [err |-> "ok", vcc |-> [vcc EXCEPT !.contents = Append(@, self)]]
        fail(e) == [err |-> e, vcc |-> vcc]
    IN  IF Len(toks) # 3 THEN fail("error")
        ELSE IF ~MatchAliasName(toks[2]) THEN fail("error")
        ELSE IF dotted
        THEN IF ~MatchObjMethod(toks[3]) THEN fail("error")
             ELSE IF obj = None THEN fail("error")
             ELSE IF Get(obj).methods = None THEN fail("exception")
             ELSE IF find_symbol(Get(Get(obj).methods), toks[3]) = None
             THEN fail("error")
             ELSE done
        ELSE IF find_symbol(vcc.contents, toks[3]) = None THEN fail("error")
        ELSE done

-----------------------------------------------------------------------------
(* class vcc and runmain. *)

DISPATCH ==
    << <<"Module", "ModuleStanza">>,
       <<"Prefix", "PrefixStanza">>,
       <<"ABI", "ABIStanza">>,
       <<"Event", "EventStanza">>,
       <<"Function", "FunctionStanza">>,
       <<"Object", "ObjectStanza">>,
       <<"Method", "MethodStanza">>,
       <<"Synopsis", "SynopsisStanza">>,
       <<"Alias", "AliasStanza">> >>

\* vcc.__init__(inputvcc, rstdir, outputprefix), with the option defaults;
\* mansection, moddesc and file_id are the attributes set later.
vcc_init ==
    [inputfile |-> "vmod.vcc", rstdir |-> ".", pfx |-> "vcc_if",
     sympfx |-> "vmod_", contents |-> <<>>, commit_files |-> <<>>,
     copyright |-> "", enums |-> <<>>, strict_abi |-> Some(TRUE),
     vrt_major |-> "0", vrt_minor |-> "0", auto_synopsis |-> Some(TRUE),
     modname |-> None, csn |-> None, mansection |-> None, moddesc |-> None,
     file_id |-> None]

\* stanzaclass(self, toks, docstr): st is the object as Stanza.__init__
\* built it, and self.parse() ends the constructor
stanzaclass(class, vcc, st, strict) ==
    CASE class = "ModuleStanza"   -> ModuleStanza_parse(vcc, st, strict)
      [] class = "PrefixStanza"   -> PrefixStanza_parse(vcc, st, strict)
      [] class = "ABIStanza"      -> ABIStanza_parse(vcc, st, strict)
      [] class = "EventStanza"    -> EventStanza_parse(vcc, st, strict)
      [] class = "FunctionStanza" -> FunctionStanza_parse(vcc, st, strict)
      [] class = "ObjectStanza"   -> ObjectStanza_parse(vcc, st, strict)
      [] class = "MethodStanza"   -> MethodStanza_parse(vcc, st, strict)
      [] class = "SynopsisStanza" -> SynopsisStanza_parse(vcc, st, strict)
      [] class = "AliasStanza"    -> AliasStanza_parse(vcc, st, strict)

\* the while loop of vcc.parse from stanzaclass = DISPATCH.get(toks[0]) on
parse_toks(vcc, toks, docstr, strict) ==
    IF toks = <<>> THEN [err |-> "exception", vcc |-> vcc]
    ELSE IF ~DictHas(DISPATCH, toks[1]) THEN [err |-> "error", vcc |-> vcc]
    ELSE stanzaclass(Get(DictGet(DISPATCH, toks[1])), vcc,
                     Stanza(Get(DictGet(DISPATCH, toks[1])), toks, docstr),
                     strict)

\* One turn of the while loop of vcc.parse on a chunk split into its
\* declaration line ss[0] and its documentation text docstr.
parse_chunk(vcc, line, docstr, strict) ==
    parse_toks(vcc, tokenize(line), docstr, strict)

\* vcc.openfile(fn)
openfile(vcc, fn) == [vcc EXCEPT !.commit_files = Append(@, fn)]

\* the file names of vcc.rstfile, vcc.mkhfile, vcc.mkcfile, vcc.amboilerplate
rst_fn(vcc, man) ==
    vcc.rstdir \o "/" \o "vmod_" \o Get(vcc.modname) \o
    (IF man THEN ".man" ELSE "") \o ".rst"

h_fn(vcc) == vcc.pfx \o ".h"

c_fn(vcc) == vcc.pfx \o ".c"

am_fn(vcc) == "automake_boilerplate_" \o Get(vcc.modname) \o ".am"

\* EventStanza.rstfile calls err(): the $Event carries documentation
EventStanza_rstfile(st, strict) ==
    IF st.doc # <<>> THEN err(strict, TRUE) ELSE "ok"

\* the for loop of vcc.rstfile over self.contents: how it ends.  Of the
\* rstfile methods only EventStanza's can end the run.
rstfile_err(vcc, strict) ==
    IF \E i \in 1..Len(vcc.contents) :
           /\ vcc.contents[i].class = "EventStanza"
           /\ EventStanza_rstfile(vcc.contents[i], strict) # "ok"
    THEN "strict" ELSE "none"

-----------------------------------------------------------------------------
(* What the generators emit for a prototype.  A C prototype is given by    *)
(* its pieces [ret, name, ll] (the text is ret name(ll[1], ll[2], ...);    *)
(* before lwrap breaks its lines), an argument structure by its name and   *)
(* its members in the order they are written.                              *)

\* ProtoType.argstructname
argstructname(p) == "struct VARGS(" \o cname(p.name) \o ")"

\* the first for loop of ProtoType.argstructure
RECURSIVE argstructure_valid(_)
argstructure_valid(args) ==
    IF args = <<>> THEN <<>>
    ELSE (IF Head(args).opt
          THEN <<[type |-> "char", name |-> "valid_" \o Get(Head(args).nm)]>>
          ELSE <<>>) \o argstructure_valid(Tail(args))

\* the second for loop of ProtoType.argstructure
RECURSIVE argstructure_fields(_)
argstructure_fields(args) ==
    IF args = <<>> THEN <<>>
    ELSE <<[type |-> Get(Head(args).ct), name |-> Get(Head(args).nm2)]>>
         \o argstructure_fields(Tail(args))

\* ProtoType.argstructure with a single loop: each validity flag right
\* before its field
RECURSIVE argstructure_members_mixed(_)
argstructure_members_mixed(args) ==
    IF args = <<>> THEN <<>>
    ELSE argstructure_valid(<<Head(args)>>) \o
         argstructure_fields(<<Head(args)>>) \o
         argstructure_members_mixed(Tail(args))

argstructure_mixed(p) ==
    [name |-> argstructname(p), members |-> argstructure_members_mixed(p.args)]

\* ProtoType.argstructure
argstructure(p) ==
    [name |-> argstructname(p),
     members |-> argstructure_valid(p.args) \o argstructure_fields(p.args)]

\* ProtoType.proto(args, name)
proto(p, args, name) ==
    [ret |-> Get(Get(p.retval).ct), name |-> name,
     ll |-> args \o (IF p.argstruct THEN <<argstructname(p) \o "*">>
                     ELSE [i \in 1..Len(p.args) |-> Get(p.args[i].ct)])]

\* ProtoType.typedef_name
typedef_name(vcc, p) ==
    "td_" \o vcc.sympfx \o Str(vcc.modname) \o "_" \o cname(p.name)

\* ProtoType.cproto(eargs, where): the argument structure when one is
\* written, and the prototype or typedef
cproto(vcc, p, eargs, where) ==
    [argstructure |-> IF p.argstruct /\ where \in {"h", "o"}
                      THEN Some(argstructure(p)) ELSE None,
     typedef |-> where \in {"c", "o"},
     proto |-> IF where = "h"
               THEN proto(p, eargs, vcc.sympfx \o cname(p.name))
               ELSE proto(p, eargs, typedef_name(vcc, p))]

\* FunctionStanza.cstuff
FunctionStanza_cstuff(vcc, st, where) ==
    cproto(vcc, Get(st.proto), <<"VRT_CTX">>, where)

\* sn of ObjectStanza.cstuff
ObjectStanza_sn(vcc, st) ==
    "VPFX(" \o Get(vcc.modname) \o "_" \o Get(st.proto).name \o ")"

\* ObjectStanza.cstuff handing init two implicit arguments only
ObjectStanza_cstuff_two(vcc, st, w) ==
    [struct |-> "struct " \o ObjectStanza_sn(vcc, st),
     init |-> cproto(vcc, Get(st.init),
                     <<"VRT_CTX",
                       "struct " \o ObjectStanza_sn(vcc, st) \o " **">>, w),
     fini |-> cproto(vcc, Get(st.fini),
                     <<"struct " \o ObjectStanza_sn(vcc, st) \o " **">>, w),
     methods |-> [i \in 1..Len(Get(st.methods)) |->
                     cproto(vcc, Get(Get(st.methods)[i].proto),
                            <<"VRT_CTX",
                              "struct " \o ObjectStanza_sn(vcc, st) \o " *">>,
                            w)]]

\* ObjectStanza.cstuff
ObjectStanza_cstuff(vcc, st, w) ==
    [struct |-> "struct " \o ObjectStanza_sn(vcc, st),
     init |-> cproto(vcc, Get(st.init),
                     <<"VRT_CTX",
                       "struct " \o ObjectStanza_sn(vcc, st) \o " **",
                       "const char *">>, w),
     fini |-> cproto(vcc, Get(st.fini),
                     <<"struct " \o ObjectStanza_sn(vcc, st) \o " **">>, w),
     methods |-> [i \in 1..Len(Get(st.methods)) |->
                     cproto(vcc, Get(Get(st.methods)[i].proto),
                            <<"VRT_CTX",
                              "struct " \o ObjectStanza_sn(vcc, st) \o " *">>,
                            w)]]

\* EventStanza.cstuff
EventStanza_cstuff(vcc, st, where) ==
    IF where = "h"
    THEN Some("vmod_event_f VPFX(" \o Get(st.event_func) \o ");")
    ELSE None

\* j.cstuff(fo, where) for a stanza j of contents: what the stanza's class
\* writes, None for the classes that keep Stanza.cstuff
cstuff(vcc, st, where) ==
    CASE st.class = "FunctionStanza" -> FunctionStanza_cstuff(vcc, st, where)
      [] st.class = "ObjectStanza"   -> ObjectStanza_cstuff(vcc, st, where)
      [] st.class = "EventStanza"    -> EventStanza_cstuff(vcc, st, where)
      [] OTHER                       -> None

-----------------------------------------------------------------------------
(* The declarations the parser is fed: [line, doc], the declaration line   *)
(* after its "$" and the documentation text that follows it.  The          *)
(* declarations of a prototype carry the document's argument list.         *)

Decl(line, doc) == [line |-> line, doc |-> doc]

ModuleDecls == {Decl("Module m 3 \"desc\"", ""), Decl("Module m", "")}

PrefixDecls == {Decl("Prefix p", "")}

ABIDecls == {Decl("ABI strict", ""), Decl("ABI vrt", ""), Decl("ABI bogus", "")}

SynopsisDecls == {Decl("Synopsis manual", ""), Decl("Synopsis bogus", "")}

EventDecls == {Decl("Event ev", ""), Decl("Event ev", "\nText.\n")}

FunctionDecls == {Decl("Function INT f(" \o arglist \o ")", "\nDoc of f.\n")}

ObjectDecls == {Decl("Object o(" \o arglist \o ")", ""),
                Decl("Object NULL_OK o()", "")}

MethodDecls == {Decl("Method VOID .m(" \o arglist \o ")", ""),
                Decl("Method VOID m()", "")}

AliasDecls == {Decl("Alias a f", ""), Decl("Alias .a o.m", ""),
               Decl("Alias b a", "")}

UnknownDecls == {Decl("Bogus x", "")}

Decls ==
    ModuleDecls \cup PrefixDecls \cup ABIDecls \cup SynopsisDecls \cup
    EventDecls \cup FunctionDecls \cup ObjectDecls \cup MethodDecls \cup
    AliasDecls \cup UnknownDecls

\* the document that exercises the prototype parser: a declaration of
\* each kind that has a prototype, all with the same argument list, and a
\* function of one plain argument
ProtoDoc ==
    <<Decl("Module m 3 \"desc\"", ""),
      Decl("Function INT f(" \o arglist \o ")", ""),
      Decl("Object o(" \o arglist \o ")", ""),
      Decl("Method VOID .m(" \o arglist \o ")", ""),
      Decl("Function BOOL is_even(INT n)", "")>>

\* the declarations of the documents that exercise the attachment of
\* methods: one of each kind, and two methods
AttachDecls ==
    {Decl("Module m 3 \"desc\"", ""),
     Decl("Prefix p", ""),
     Decl("ABI vrt", ""),
     Decl("Synopsis manual", ""),
     Decl("Event ev", ""),
     Decl("Function INT f(" \o arglist \o ")", ""),
     Decl("Object o(" \o arglist \o ")", ""),
     Decl("Method VOID .m(" \o arglist \o ")", ""),
     Decl("Method INT .n()", ""),
     Decl("Alias .a o.m", "")}

\* the arguments an argument list is made of, and the argument lists
ArgTexts ==
    {"INT a", "[INT b]", "REAL c", "STRING", "[STRING]", "[ENUM {x, y} d = x]"}

ArgLists ==
    {Join(", ", a) : a \in UNION {[1..n -> ArgTexts] : n \in 0..MaxArgs}}

-----------------------------------------------------------------------------
(* The protocol listing vcc.iter_json builds: a JSON list is a sequence,   *)
(* and the entry of a type or an argument is the sequence of its           *)
(* positions, each None (null) or Some(value).                             *)

\* the ordinal of a character: its place among the printable ASCII
\* characters, in their order (quotes, the backslash and the space left out)
Ascii ==
    "#$%&()*+,-./0123456789:;<=>?@ABCDEFGHIJKLMNOPQRSTUVWXYZ[]^_abcdefghijklmnopqrstuvwxyz{|}~"

Ord(c) == CHOOSE i \in 1..Len(Ascii) : Char(Ascii, i) = c

\* a < b for Python strings
RECURSIVE StrLess(_, _)
StrLess(a, b) ==
    IF b = "" THEN FALSE
    ELSE IF a = "" THEN TRUE
    ELSE IF Char(a, 1) # Char(b, 1) THEN Ord(Char(a, 1)) < Ord(Char(b, 1))
    ELSE StrLess(SubSeq(a, 2, Len(a)), SubSeq(b, 2, Len(b)))

\* sorted(l) for a list of distinct strings
RECURSIVE sorted_insert(_, _)
sorted_insert(l, x) ==
    IF l = <<>> THEN <<x>>
    ELSE IF StrLess(x, Head(l)) THEN <<x>> \o l
    ELSE <<Head(l)>> \o sorted_insert(Tail(l), x)

RECURSIVE sorted(_)
sorted(l) ==
    IF l = <<>> THEN <<>>
    ELSE sorted_insert(sorted(SubSeq(l, 1, Len(l) - 1)), l[Len(l)])

\* the list without any of its None elements
pop_every_none(l) == SelectSeq(l, LAMBDA x : Len(x) > 0)

\* while jl[-1][-1] is None: jl[-1].pop(-1)
RECURSIVE pop_trailing_none(_)
pop_trailing_none(l) ==
    IF Len(l[Len(l)]) = 0
    THEN pop_trailing_none(SubSeq(l, 1, Len(l) - 1))
    ELSE l

\* CType.jsonproto(jl): the entry it appends to jl
CType_jsonproto(t) == pop_trailing_none(<<Some(t.vt)>>)

\* arg.jsonproto(jl): the entry it appends to jl
arg_jsonproto(t) ==
    pop_trailing_none(<<Some(t.vt), t.nm, t.defval, t.spec>> \o
                      (IF t.opt THEN <<Some(TRUE)>> ELSE <<>>))

\* ProtoType.jsonproto(jl, cfunc): the list ll it appends to jl
ProtoType_jsonproto(vcc, p, cfunc) ==
    <<CType_jsonproto(Get(p.retval)),
      Str(vcc.csn) \o "." \o cfunc,
      IF p.argstruct
      THEN "struct arg_" \o vcc.sympfx \o Str(vcc.modname) \o "_" \o cname(p.name)
      ELSE "">> \o
    [i \in 1..Len(p.args) |-> arg_jsonproto(p.args[i])]

\* EventStanza.json
EventStanza_json(vcc, st) == <<"$EVENT", Str(vcc.csn) \o "._event">>

\* FunctionStanza.json
FunctionStanza_json(vcc, st) ==
    <<"$FUNC", Get(st.proto).name,
      ProtoType_jsonproto(vcc, Get(st.proto), cname(Get(st.proto).name))>>

\* MethodStanza.json naming the entry by the whole name of the prototype
MethodStanza_json_full(vcc, st) ==
    <<"$METHOD", Get(st.proto).name,
      ProtoType_jsonproto(vcc, Get(st.proto), cname(Get(st.proto).name))>>

\* MethodStanza.json
MethodStanza_json(vcc, st) ==
    <<"$METHOD",
      SubSeq(Get(st.proto).name, Len(Get(st.pfx)) + 2, Len(Get(st.proto).name)),
      ProtoType_jsonproto(vcc, Get(st.proto), cname(Get(st.proto).name))>>

\* ObjectStanza.json
ObjectStanza_json(vcc, st) ==
    <<"$OBJ", Get(st.proto).name, [NULL_OK |-> st.null_ok],
      "struct " \o vcc.sympfx \o Str(vcc.modname) \o "_" \o Get(st.proto).name,
      <<"$INIT", ProtoType_jsonproto(vcc, Get(st.init), Get(st.init).name)>>,
      <<"$FINI", ProtoType_jsonproto(vcc, Get(st.fini), Get(st.fini).name)>> >> \o
    [i \in 1..Len(Get(st.methods)) |-> MethodStanza_json(vcc, Get(st.methods)[i])]

\* AliasStanza.json
AliasStanza_json(vcc, st) == <<"$ALIAS", Get(st.sym_alias), Get(st.sym_name)>>

\* j.json(jl) for a stanza j of contents: the entries it appends to jl,
\* none for the classes that keep Stanza.json
json(vcc, st) ==
    CASE st.class = "EventStanza"    -> <<EventStanza_json(vcc, st)>>
      [] st.class = "FunctionStanza" -> <<FunctionStanza_json(vcc, st)>>
      [] st.class = "ObjectStanza"   -> <<ObjectStanza_json(vcc, st)>>
      [] st.class = "AliasStanza"    -> <<AliasStanza_json(vcc, st)>>
      [] OTHER                       -> <<>>

\* fmt_cstruct_proto(fo, proto, True): the member [a, b] of the struct
fmt_cstruct_proto(vcc, p) ==
    [a |-> typedef_name(vcc, p), b |-> "*" \o cname(p.name) \o ";"]

\* j.cstruct(fo, True) for a stanza j of contents or a method of an object
cstruct_stanza(vcc, st) ==
    CASE st.class = "EventStanza" ->
             <<[a |-> "vmod_event_f", b |-> "*_event;"]>>
      [] st.class \in {"FunctionStanza", "MethodStanza"} ->
             <<fmt_cstruct_proto(vcc, Get(st.proto))>>
      [] st.class = "ObjectStanza" ->
             <<fmt_cstruct_proto(vcc, Get(st.init)),
               fmt_cstruct_proto(vcc, Get(st.fini))>> \o
             [i \in 1..Len(Get(st.methods)) |->
                 fmt_cstruct_proto(vcc, Get(Get(st.methods)[i].proto))]
      [] OTHER -> <<>>

RECURSIVE cstruct_contents(_, _)
cstruct_contents(vcc, n) ==
    IF n = 0 THEN <<>>
    ELSE cstruct_contents(vcc, n - 1) \o cstruct_stanza(vcc, vcc.contents[n])

\* vcc.cstruct(fo): the members of struct <csn>
cstruct(vcc) ==
    [struct |-> Str(vcc.csn),
     members |-> cstruct_contents(vcc, Len(vcc.contents)) \o
                 [i \in 1..Len(vcc.enums) |->
                     [a |-> "VCL_ENUM",
                      b |-> "*enum_" \o sorted(DictKeys(vcc.enums))[i] \o ";"]]]

\* i.cstuff(fo, w) for the stanzas i of sts
cstuff_all(vcc, sts, w) == [i \in 1..Len(sts) |-> cstuff(vcc, sts[i], w)]

\* what vcc.mkcfile writes to fx, the file <pfx>.c.tmp2: the 'o' form of
\* the objects, then of the functions, then the struct
mkcfile_fx(vcc) ==
    cstuff_all(vcc, SelectSeq(vcc.contents,
                              LAMBDA i : i.class = "ObjectStanza"), "o") \o
    cstuff_all(vcc, SelectSeq(vcc.contents,
                              LAMBDA i : i.class = "FunctionStanza"), "o") \o
    <<cstruct(vcc)>>

\* the for loop of vcc.iter_json taking the stanzas last to first
RECURSIVE json_contents_reversed(_, _)
json_contents_reversed(vcc, n) ==
    IF n = 0 THEN <<>>
    ELSE json(vcc, vcc.contents[n]) \o json_contents_reversed(vcc, n - 1)

RECURSIVE json_contents(_, _)
json_contents(vcc, n) ==
    IF n = 0 THEN <<>>
    ELSE json_contents(vcc, n - 1) \o json(vcc, vcc.contents[n])

\* vcc.iter_json(fnx): the list jl, fx being what was written to fnx
iter_json(vcc, fx) ==
    <<<<"$VMOD", "1.0", Str(vcc.modname), Str(vcc.csn), vcc.file_id>>,
      <<"$CPROTO">> \o fx \o
          <<"static struct " \o Str(vcc.csn) \o " " \o Str(vcc.csn) \o ";">> >> \o
    json_contents(vcc, Len(vcc.contents))

\* vcc.vmod_data(fo): the members it writes from the vcc object
vmod_data(vcc) ==
    [vrt_major |-> vcc.vrt_major, vrt_minor |-> vcc.vrt_minor,
     name |-> Str(vcc.modname), func |-> "&" \o Str(vcc.csn),
     file_id |-> vcc.file_id]

-----------------------------------------------------------------------------
(* The documentation: the headings vcc.rstfile writes.                     *)

\* s.replace(c, r) for a one-character c
RECURSIVE Replace(_, _, _)
Replace(s, c, r) ==
    IF Len(s) = 0 THEN ""
    ELSE IF Len(s) = 1 THEN (IF s = c THEN r ELSE s)
    ELSE Replace(SubSeq(s, 1, Len(s) \div 2), c, r) \o
         Replace(SubSeq(s, Len(s) \div 2 + 1, Len(s)), c, r)

\* CType.vcl(terse)
vcl(t, terse) ==
    IF t.vt = "STRANDS" THEN "STRING"
    ELSE IF terse THEN t.vt
    ELSE IF t.spec = None THEN t.vt
    ELSE t.vt \o " {" \o Join(", ", Get(t.spec)) \o "}"

\* the body of the for loop of ProtoType.vcl_proto: the text of one
\* argument, none for a PRIV_ argument; t is i.vcl(terse)
vcl_proto_arg(i, t, terse) ==
    IF DictHas(PRIVS, t) THEN <<>>
    ELSE <<(IF i.opt THEN "[" ELSE "") \o
           t \o
           (IF i.nm # None THEN " " \o Get(i.nm) ELSE "") \o
           (IF ~terse /\ i.defval # None THEN "=" \o Get(i.defval) ELSE "") \o
           (IF i.opt THEN "]" ELSE "")>>

RECURSIVE vcl_proto_ll(_, _)
vcl_proto_ll(args, terse) ==
    IF args = <<>> THEN <<>>
    ELSE vcl_proto_arg(Head(args), vcl(Head(args), terse), terse) \o
         vcl_proto_ll(Tail(args), terse)

\* ProtoType.vcl_proto from t = ",@".join(ll) on: s is the text up to the
\* opening parenthesis, pfx the prefix as the method doubled it
vcl_proto_wrap(s, t, terse, pfx) ==
    IF Len(s \o t) > 68 /\ ~terse
    THEN s \o "\n" \o pfx \o pfx \o Replace(t, "@", "\n" \o pfx \o pfx) \o
         "\n" \o pfx \o ")"
    ELSE s \o Replace(t, "@", " ") \o ")"

\* ProtoType.vcl_proto heading every function with the module name
vcl_proto_head_qualified(vcc, p, pfx) ==
    pfx \o
    (IF p.st = "ObjectStanza" THEN "new " \o Str(p.obj) \o " = "
     ELSE IF p.retval # None THEN vcl(Get(p.retval), FALSE) \o " "
     ELSE "") \o
    (IF p.st = "MethodStanza" THEN Str(p.obj) \o p.bname \o "("
     ELSE Str(vcc.modname) \o "." \o p.name \o "(")

\* ProtoType.vcl_proto up to the opening parenthesis
vcl_proto_head(vcc, p, pfx) ==
    pfx \o
    (IF p.st = "ObjectStanza" THEN "new " \o Str(p.obj) \o " = "
     ELSE IF p.retval # None THEN vcl(Get(p.retval), FALSE) \o " "
     ELSE "") \o
    (IF p.st = "ObjectStanza" THEN Str(vcc.modname) \o "." \o p.name \o "("
     ELSE IF p.st = "MethodStanza" THEN Str(p.obj) \o p.bname \o "("
     ELSE p.name \o "(")

\* ProtoType.vcl_proto(terse, pfx)
vcl_proto(vcc, p, terse, pfx) ==
    vcl_proto_wrap(
        vcl_proto_head(vcc, p, IF p.st = "MethodStanza" THEN pfx \o pfx ELSE pfx),
        Join(",@", vcl_proto_ll(p.args, terse)),
        terse,
        IF p.st = "MethodStanza" THEN pfx \o pfx ELSE pfx)

\* ProtoType.rst_proto(fo, sep): the heading write_rst_hdr is given and the
\* literal block that follows it; s is self.vcl_proto(False)
rst_proto_of(vcc, p, s) ==
    IF Len(s) < 60
    THEN [hdr |-> s, literal |-> None]
    ELSE [hdr |-> vcl_proto(vcc, p, TRUE, ""),
          literal |-> Some("\n::\n\n" \o vcl_proto(vcc, p, FALSE, "   ") \o "\n")]

rst_proto(vcc, p) == rst_proto_of(vcc, p, vcl_proto(vcc, p, FALSE, ""))

\* a heading write_rst_hdr writes that is no prototype
rst_hdr(s) == [hdr |-> s, literal |-> None]

\* ModuleStanza.rsthead(fo, man): the headings it writes
ModuleStanza_rsthead(vcc, st, man) ==
    (IF man
     THEN <<rst_hdr("vmod_" \o Str(vcc.modname)), rst_hdr(Str(vcc.moddesc))>>
     ELSE <<rst_hdr("VMOD " \o Str(vcc.modname) \o " - " \o Str(vcc.moddesc))>>) \o
    (IF vcc.auto_synopsis \in {None, Some(FALSE)} THEN <<>>
     ELSE <<rst_hdr("SYNOPSIS")>>)

\* i.rstfile(fo, man) for a stanza i of contents or a method of an object:
\* the headings it writes
rstfile_stanza(vcc, st, man) ==
    CASE st.class = "ModuleStanza" -> ModuleStanza_rsthead(vcc, st, man)
      [] st.class = "AliasStanza" ->
             <<rst_hdr("ALIAS " \o Str(st.doc_alias) \o "()")>>
      [] st.class = "EventStanza" -> <<>>
      [] st.class = "ObjectStanza" ->
             <<rst_proto(vcc, Get(st.proto))>> \o
             [i \in 1..Len(Get(st.methods)) |->
                 rst_proto(vcc, Get(Get(st.methods)[i].proto))]
      [] OTHER ->
             IF st.proto # None THEN <<rst_proto(vcc, Get(st.proto))>> ELSE <<>>

\* the for loop of vcc.rstfile over the first n stanzas of contents
RECURSIVE rstfile_contents(_, _, _)
rstfile_contents(vcc, n, man) ==
    IF n = 0 THEN <<>>
    ELSE rstfile_contents(vcc, n - 1, man) \o
         rstfile_stanza(vcc, vcc.contents[n], man)

\* the number of stanzas the for loop of vcc.rstfile gets through: all of
\* them, or those before the $Event whose rstfile ends the run
rstfile_upto(vcc, strict) ==
    IF rstfile_err(vcc, strict) = "none" THEN Len(vcc.contents)
    ELSE (CHOOSE i \in 1..Len(vcc.contents) :
              /\ vcc.contents[i].class = "EventStanza"
              /\ EventStanza_rstfile(vcc.contents[i], strict) # "ok"
              /\ \A k \in 1..(i - 1) :
                     ~(/\ vcc.contents[k].class = "EventStanza"
                       /\ EventStanza_rstfile(vcc.contents[k], strict) # "ok")) - 1

-----------------------------------------------------------------------------
(* The fingerprint of the input.  A SHA-256 hash object is modelled by the *)
(* text it was updated with, its digest by that text under the tag         *)
(* "sha256": equal digests stand for equal hashed texts.                   *)

\* hashlib.sha256() of vcc.parse taking up what an earlier run hashed
sha256_carried == IF first = None THEN "" ELSE Get(first).h

\* hashlib.sha256()
sha256_new == ""

\* h.update(data)
sha256_update(hash, data) == hash \o data

\* h.hexdigest()
sha256_hexdigest(hash) == <<"sha256", hash>>

\* the state of the generators' output before any of them ran
nothing_written ==
    [rst |-> <<>>, man |-> <<>>, enums |-> <<>>, cenums |-> <<>>,
     json |-> <<>>, vmod_data |-> None]

-----------------------------------------------------------------------------
(* The run: runmain, one action per step. *)

Init ==
    /\ opts \in [strict : BOOLEAN, boilerplate : BOOLEAN]
    /\ v = vcc_init
    /\ pc = "parse"
    /\ chunks = <<>>
    /\ exitcause = "none"
    /\ tmpfiles = {}
    /\ renamed = {}
    /\ arglist = "INT a, [INT b]"
    /\ hfile = <<>>
    /\ lasttoks = <<>>
    /\ first = None
    /\ h = sha256_new
    /\ written = nothing_written

\* vcc.parse: the while loop pops one chunk and hands it to its stanza
\* class; r is what that made of the vcc object
ParseResult(r) ==
    /\ v' = r.vcc
    /\ pc' = IF r.err = "ok" THEN "parse" ELSE "failed"
    /\ exitcause' = IF r.err = "ok" THEN "none" ELSE r.err

\* one turn of the loop on the chunk d, tk being self.tokenize(ss[0])
ParseToks(d, tk) ==
    /\ lasttoks' = tk
    /\ h' = sha256_update(h, "$" \o Join(" ", tk) \o "\n")
    /\ ParseResult(parse_toks(v, tk, d.doc, opts.strict))
    /\ chunks' = Append(chunks, d)
    /\ UNCHANGED <<opts, tmpfiles, renamed, arglist, hfile, written, first>>

Parse(d, max) ==
    /\ pc = "parse"
    /\ Len(chunks) < max
    /\ ParseToks(d, tokenize(d.line))

ParseDecl == \E d \in Decls : Parse(d, MaxDecls)

\* vcc.parse after its loop: the input is exhausted
EndParse ==
    /\ pc = "parse"
    /\ v' = [v EXCEPT !.csn = Some("Vmod_" \o v.sympfx \o Str(v.modname) \o "_Func"),
                      !.file_id = Some(sha256_hexdigest(h))]
    /\ pc' = "rstfile"
    /\ UNCHANGED <<opts, chunks, exitcause, tmpfiles, renamed, arglist, hfile, lasttoks, h, written, first>>

\* vcc.rstfile(man): the file is opened before the stanzas are rendered
RstFile(man) ==
    /\ pc = IF man THEN "rstfile_man" ELSE "rstfile"
    /\ IF v.modname = None
       THEN /\ pc' = "failed"
            /\ exitcause' = "exception"
            /\ UNCHANGED <<v, tmpfiles, written>>
       ELSE /\ v' = openfile(v, rst_fn(v, man))
            /\ tmpfiles' = tmpfiles \cup {rst_fn(v, man)}
            /\ written' =
                   IF man
                   THEN [written EXCEPT !.man =
                            rstfile_contents(v, rstfile_upto(v, opts.strict), TRUE)]
                   ELSE [written EXCEPT !.rst =
                            rstfile_contents(v, rstfile_upto(v, opts.strict), FALSE)]
            /\ pc' = IF rstfile_err(v, opts.strict) = "none"
                     THEN (IF man THEN "mkhfile" ELSE "rstfile_man")
                     ELSE "failed"
            /\ exitcause' = rstfile_err(v, opts.strict)
    /\ UNCHANGED <<opts, chunks, renamed, arglist, hfile, lasttoks, h, first>>

RstFileRef == RstFile(FALSE)

RstFileMan == RstFile(TRUE)

\* vcc.mkhfile writing the header under its final name
MkHFile_final ==
    /\ pc = "mkhfile"
    /\ v' = openfile(v, h_fn(v))
    /\ renamed' = renamed \cup {h_fn(v)}
    /\ hfile' = [i \in 1..Len(v.contents) |-> cstuff(v, v.contents[i], "h")]
    /\ written' = [written EXCEPT !.enums = sorted(DictKeys(v.enums))]
    /\ pc' = "mkcfile"
    /\ UNCHANGED <<opts, chunks, exitcause, tmpfiles, arglist, lasttoks, h, first>>

\* vcc.mkhfile
MkHFile ==
    /\ pc = "mkhfile"
    /\ v' = openfile(v, h_fn(v))
    /\ tmpfiles' = tmpfiles \cup {h_fn(v)}
    /\ hfile' = [i \in 1..Len(v.contents) |-> cstuff(v, v.contents[i], "h")]
    /\ written' = [written EXCEPT !.enums = sorted(DictKeys(v.enums))]
    /\ pc' = "mkcfile"
    /\ UNCHANGED <<opts, chunks, exitcause, renamed, arglist, lasttoks, h, first>>

\* vcc.mkcfile; its scratch file <pfx>.c.tmp2 is written and removed here
MkCFile ==
    /\ pc = "mkcfile"
    /\ v' = openfile(v, c_fn(v))
    /\ tmpfiles' = tmpfiles \cup {c_fn(v)}
    /\ written' = [written EXCEPT !.cenums = sorted(DictKeys(v.enums)),
                                    !.json = iter_json(v, mkcfile_fx(v)),
                                    !.vmod_data = Some(vmod_data(v))]
    /\ pc' = IF opts.boilerplate THEN "amboilerplate" ELSE "commit"
    /\ UNCHANGED <<opts, chunks, exitcause, renamed, arglist, hfile, lasttoks, h, first>>

\* vcc.amboilerplate, run under --boilerplate
AmBoilerplate ==
    /\ pc = "amboilerplate"
    /\ v' = openfile(v, am_fn(v))
    /\ tmpfiles' = tmpfiles \cup {am_fn(v)}
    /\ pc' = "commit"
    /\ UNCHANGED <<opts, chunks, exitcause, renamed, arglist, hfile, lasttoks, h, written, first>>

\* vcc.commit: one os.rename of the for loop
Commit ==
    /\ pc = "commit"
    /\ Cardinality(renamed) < Len(v.commit_files)
    /\ renamed' = renamed \cup {v.commit_files[Cardinality(renamed) + 1]}
    /\ tmpfiles' = tmpfiles \ {v.commit_files[Cardinality(renamed) + 1]}
    /\ UNCHANGED <<opts, v, pc, chunks, exitcause, arglist, hfile, lasttoks, h, written, first>>

\* runmain returns
Done ==
    /\ pc = "commit"
    /\ Cardinality(renamed) = Len(v.commit_files)
    /\ pc' = "done"
    /\ UNCHANGED <<opts, v, chunks, exitcause, tmpfiles, renamed, arglist, hfile, lasttoks, h, written, first>>

Generate ==
    \/ EndParse
    \/ RstFileRef
    \/ RstFileMan
    \/ MkHFile
    \/ MkCFile
    \/ AmBoilerplate
    \/ Commit
    \/ Done

Next == ParseDecl \/ Generate

Spec == Init /\ [][Next]_vars

-----------------------------------------------------------------------------
(* The runs that exercise the prototype parser: the document of a Module,  *)
(* a Function, an Object and a Method declaration whose argument list is   *)
(* any list of up to MaxArgs arguments, or a part of it that is at its     *)
(* end, under the default options.                                         *)

InitProto ==
    /\ opts = [strict |-> FALSE, boilerplate |-> FALSE]
    /\ v = vcc_init
    /\ pc = "parse"
    /\ chunks = <<>>
    /\ exitcause = "none"
    /\ tmpfiles = {}
    /\ renamed = {}
    /\ arglist \in ArgLists
    /\ hfile = <<>>
    /\ lasttoks = <<>>
    /\ first = None
    /\ h = sha256_new
    /\ written = nothing_written

ParseProtoDecl ==
    /\ Len(chunks) < Len(ProtoDoc)
    /\ Parse(ProtoDoc[Len(chunks) + 1], Len(ProtoDoc))

NextProto ==
    \/ ParseProtoDecl
    \/ EndParse
    \/ RstFileRef
    \/ RstFileMan
    \/ MkHFile
    \/ MkCFile
    \/ Commit
    \/ Done

SpecProto == InitProto /\ [][NextProto]_vars

-----------------------------------------------------------------------------
(* The runs on small documents of modules and objects: documents of up to  *)
(* MaxExampleDecls declarations of two modules, of objects with and        *)
(* without NULL_OK and of their methods, the names spelled with and        *)
(* without the object before the dot, under the default options.           *)

MaxExampleDecls == 3

ExampleDecls ==
    {Decl("Module m 3 \"desc\"", ""),
     Decl("Module n 4 \"other\"", ""),
     Decl("Object NULL_OK foo(STRING s)", ""),
     Decl("Object bar(STRING s)", ""),
     Decl("Object NULL_OK foo.new(STRING s)", ""),
     Decl("Method VOID .destroy()", ""),
     Decl("Method INT .n(INT a)", ""),
     Decl("Method VOID foo.destroy()", "")}

InitExample ==
    /\ opts = [strict |-> FALSE, boilerplate |-> FALSE]
    /\ v = vcc_init
    /\ pc = "parse"
    /\ chunks = <<>>
    /\ exitcause = "none"
    /\ tmpfiles = {}
    /\ renamed = {}
    /\ arglist = ""
    /\ hfile = <<>>
    /\ lasttoks = <<>>
    /\ first = None
    /\ h = sha256_new
    /\ written = nothing_written

ParseExampleDecl == \E d \in ExampleDecls : Parse(d, MaxExampleDecls)

NextExample ==
    \/ ParseExampleDecl
    \/ EndParse
    \/ RstFileRef
    \/ RstFileMan
    \/ MkHFile
    \/ MkCFile
    \/ Commit
    \/ Done

SpecExample == InitExample /\ [][NextExample]_vars

-----------------------------------------------------------------------------
(* Two runs of the program on the same input file, with the same options:  *)
(* the first run on a document of up to MaxTwiceDecls declarations, and,   *)
(* when it has ended, a second process started on the chunks the first     *)
(* one read.  Of the first run the second keeps nothing but the record     *)
(* first, which no step of the program reads: tmpfiles and renamed are the *)
(* files of the run at hand.                                               *)

MaxTwiceDecls == 3

TwiceDecls ==
    {Decl("Module m 3 \"desc\"", ""),
     Decl("ABI bogus", ""),
     Decl("Event ev", "\nText.\n"),
     Decl("Function ENUM {q, p} f(ENUM {y, x} e, [ENUM {x, a} d = a])", ""),
     Decl("Function INT g(ENUM {a, a, \"q\"})", ""),
     Decl("Object o(ENUM {b, a})", ""),
     Decl("Method VOID .m(ENUM {z})", "")}

InitTwice ==
    /\ opts \in [strict : BOOLEAN, boilerplate : {FALSE}]
    /\ v = vcc_init
    /\ pc = "parse"
    /\ chunks = <<>>
    /\ exitcause = "none"
    /\ tmpfiles = {}
    /\ renamed = {}
    /\ arglist = ""
    /\ hfile = <<>>
    /\ lasttoks = <<>>
    /\ first = None
    /\ h = sha256_new
    /\ written = nothing_written

\* the first run pops a chunk
ParseFirst ==
    /\ first = None
    /\ \E d \in TwiceDecls : Parse(d, MaxTwiceDecls)

\* the second run pops the chunk the first run popped at this place
ParseAgain ==
    /\ first # None
    /\ Len(chunks) < Len(Get(first).chunks)
    /\ Parse(Get(first).chunks[Len(chunks) + 1], Len(Get(first).chunks))

\* vcc.parse after its loop; the second run has the input of the first
EndParseTwice ==
    /\ first # None => Len(chunks) = Len(Get(first).chunks)
    /\ EndParse

\* the process has ended, and the program is started again on the same
\* input file: runmain up to vcc.parse
Rerun ==
    /\ pc \in {"done", "failed"}
    /\ first = None
    /\ first' = Some([chunks |-> chunks, pc |-> pc, exitcause |-> exitcause,
                      h |-> h, file_id |-> v.file_id, hfile |-> hfile,
                      written |-> written])
    /\ v' = vcc_init
    /\ pc' = "start"
    /\ chunks' = <<>>
    /\ exitcause' = "none"
    /\ tmpfiles' = {}
    /\ renamed' = {}
    /\ hfile' = <<>>
    /\ lasttoks' = <<>>
    /\ written' = nothing_written
    /\ UNCHANGED <<opts, arglist, h>>

\* vcc.parse before its loop
StartParse ==
    /\ pc = "start"
    /\ h' = sha256_new
    /\ pc' = "parse"
    /\ UNCHANGED <<opts, v, chunks, exitcause, tmpfiles, renamed, arglist,
                   hfile, lasttoks, written, first>>

NextTwice ==
    \/ ParseFirst
    \/ ParseAgain
    \/ StartParse
    \/ EndParseTwice
    \/ RstFileRef
    \/ RstFileMan
    \/ MkHFile
    \/ MkCFile
    \/ Commit
    \/ Done
    \/ Rerun

SpecTwice == InitTwice /\ [][NextTwice]_vars

-----------------------------------------------------------------------------
(* The runs that exercise the names and the defaults of arguments: the     *)
(* document of the prototype parser with any list of up to MaxNamedArgs    *)
(* arguments that are required or optional, named (also by a name of the   *)
(* form the program makes up itself) or unnamed, with and without a        *)
(* default value and a set of literals, under the default options.         *)

MaxNamedArgs == 3

NamedArgTexts ==
    {"INT a", "INT", "[INT b]", "INT arg2", "INT valid_b", "INT n = 1",
     "ENUM {x, y} e", "[ENUM {x, y} d = x]"}

NamedArgLists ==
    {Join(", ", a) : a \in UNION {[1..n -> NamedArgTexts] : n \in 0..MaxNamedArgs}}

InitArgs ==
    /\ opts = [strict |-> FALSE, boilerplate |-> FALSE]
    /\ v = vcc_init
    /\ pc = "parse"
    /\ chunks = <<>>
    /\ exitcause = "none"
    /\ tmpfiles = {}
    /\ renamed = {}
    /\ arglist \in NamedArgLists
    /\ hfile = <<>>
    /\ lasttoks = <<>>
    /\ first = None
    /\ h = sha256_new
    /\ written = nothing_written

SpecArgs == InitArgs /\ [][NextProto]_vars

-----------------------------------------------------------------------------
(* The runs that exercise the tokenizer: the input file holds one chunk    *)
(* whose declaration line is any text of up to MaxTextLen characters, a    *)
(* letter, a blank, separators and the two quotes among them.  Here the    *)
(* variable arglist is the whole text of the line.                         *)

MaxTextLen == 4

TextChars == {"a", " ", "(", "=", "\"", "'"}

Texts == {Join("", a) : a \in UNION {[1..n -> TextChars] : n \in 0..MaxTextLen}}

InitText ==
    /\ opts = [strict |-> FALSE, boilerplate |-> FALSE]
    /\ v = vcc_init
    /\ pc = "parse"
    /\ chunks = <<>>
    /\ exitcause = "none"
    /\ tmpfiles = {}
    /\ renamed = {}
    /\ arglist \in Texts
    /\ hfile = <<>>
    /\ lasttoks = <<>>
    /\ first = None
    /\ h = sha256_new
    /\ written = nothing_written

ParseText == Parse(Decl(arglist, ""), 1)

NextText == ParseText

SpecText == InitText /\ [][NextText]_vars

-----------------------------------------------------------------------------
(* The runs that exercise the attachment of methods: documents of up to    *)
(* MaxAttachDecls declarations of every kind, under the default options.   *)

InitAttach ==
    /\ opts = [strict |-> FALSE, boilerplate |-> FALSE]
    /\ v = vcc_init
    /\ pc = "parse"
    /\ chunks = <<>>
    /\ exitcause = "none"
    /\ tmpfiles = {}
    /\ renamed = {}
    /\ arglist = "INT a"
    /\ hfile = <<>>
    /\ lasttoks = <<>>
    /\ first = None
    /\ h = sha256_new
    /\ written = nothing_written

ParseAttachDecl == \E d \in AttachDecls : Parse(d, MaxAttachDecls)

NextAttach ==
    \/ ParseAttachDecl
    \/ EndParse
    \/ RstFileRef
    \/ RstFileMan
    \/ MkHFile
    \/ MkCFile
    \/ Commit
    \/ Done

SpecAttach == InitAttach /\ [][NextAttach]_vars

-----------------------------------------------------------------------------
(* Vocabulary of the properties. *)

\* the keyword of a declaration: the text before its first blank
RECURSIVE FirstWord(_)
FirstWord(s) ==
    IF s = "" \/ IsSpace(Head(s)) THEN "" ELSE Head(s) \o FirstWord(Tail(s))

DeclKind(d) == FirstWord(d.line)

KindCount(k) == Cardinality({i \in 1..Len(chunks) : DeclKind(chunks[i]) = k})

ClassCount(c) ==
    Cardinality({i \in 1..Len(v.contents) : v.contents[i].class = c})

\* the run ended inside vcc.parse: the last chunk popped was refused
ParseFailed == pc = "failed" /\ v.csn = None

\* the number of chunks the parser has accepted
AcceptedLen == IF ParseFailed THEN Len(chunks) - 1 ELSE Len(chunks)

\* fn is among the files the generators opened
Generated(fn) == fn \in Range(v.commit_files)

\* an $ABI or $Synopsis declaration with a token that is no mode
InvalidMode(d) ==
    LET toks == tokenize(d.line)
    IN  /\ Len(toks) = 2
        /\ \/ toks[1] = "ABI" /\ toks[2] \notin {"strict", "vrt"}
           \/ toks[1] = "Synopsis" /\ toks[2] \notin {"auto", "manual"}

\* a top-level $Event that carries documentation
HasEventDoc ==
    \E i \in 1..Len(v.contents) :
        v.contents[i].class = "EventStanza" /\ v.contents[i].doc # <<>>

\* the prototypes a stanza holds, and those of the whole document
StanzaProtos(st) ==
    {Get(x) : x \in {st.proto, st.init, st.fini} \ {None}} \cup
    (IF st.methods = None THEN {}
     ELSE {Get(Get(st.methods)[i].proto) : i \in 1..Len(Get(st.methods))})

Protos == UNION {StanzaProtos(v.contents[i]) : i \in 1..Len(v.contents)}

HasOptional(p) == \E i \in 1..Len(p.args) : p.args[i].opt

OptArgs(p) == SelectSeq(p.args, LAMBDA a : a.opt)

\* the header has been written
HeaderWritten == v.modname # None /\ Generated(h_fn(v))

\* the pairs <<prototype, what mkhfile wrote for it>>
Emitted ==
    IF ~HeaderWritten THEN {}
    ELSE UNION {
        IF v.contents[i].class = "FunctionStanza"
        THEN {<<Get(v.contents[i].proto), hfile[i]>>}
        ELSE IF v.contents[i].class = "ObjectStanza"
        THEN {<<Get(v.contents[i].init), hfile[i].init>>,
              <<Get(v.contents[i].fini), hfile[i].fini>>} \cup
             {<<Get(Get(v.contents[i].methods)[k].proto), hfile[i].methods[k]>> :
                  k \in 1..Len(Get(v.contents[i].methods))}
        ELSE {} : i \in 1..Len(v.contents)}

-----------------------------------------------------------------------------
(* C1: no file bears its final name unless parsing and every generator    *)
(* (both rst files, header, source, and the boilerplate under              *)
(* --boilerplate) ended without a fatal error; a run that failed has       *)
(* renamed nothing; a run that is done has renamed all it generated.       *)
C1_CommitIsLast ==
    /\ renamed # {} =>
        /\ pc \in {"commit", "done"}
        /\ exitcause = "none"
        /\ v.modname # None
        /\ Generated(rst_fn(v, FALSE)) /\ Generated(rst_fn(v, TRUE))
        /\ Generated(h_fn(v)) /\ Generated(c_fn(v))
        /\ opts.boilerplate => Generated(am_fn(v))
    /\ pc = "failed" => renamed = {}
    /\ pc = "done" => renamed = Range(v.commit_files) /\ tmpfiles = {}

\* a run under --boilerplate that committed its five files
C1_Committed ==
    pc = "done" /\ opts.boilerplate /\ Cardinality(renamed) = 5

(* C2 as the specification states it: output is committed only for a      *)
(* document whose first declaration is $Module.                            *)
C2_ModuleFirst ==
    renamed # {} =>
        v.contents # <<>> /\ v.contents[1].class = "ModuleStanza"

(* C3 as the specification states it: a second $ABI or a second $Prefix    *)
(* declaration is refused, so no accepted document holds two of either.    *)
C3_SetOnce ==
    ~ParseFailed => KindCount("ABI") <= 1 /\ KindCount("Prefix") <= 1

(* C4 as the specification states it: an $ABI or $Synopsis declaration     *)
(* with an invalid token ends the run whatever --strict is, and neither    *)
(* mode of a run that goes on holds what came of such a token.             *)
C4_InvalidTokenFatal ==
    /\ (\E i \in 1..Len(chunks) : InvalidMode(chunks[i])) =>
           pc = "failed" /\ renamed = {}
    /\ pc # "failed" => v.strict_abi # None /\ v.auto_synopsis # None

(* C5: without --strict no warning ends the run: past parsing only the     *)
(* missing $Module does, and a run that is done has committed every file.  *)
(* Under --strict the run ends at the first invalid mode token, an $Event  *)
(* that carries documentation never lets the run past vcc.rstfile, and a   *)
(* run a warning ended has renamed nothing.                                *)
C5_Strictness ==
    /\ ~opts.strict =>
        /\ exitcause # "strict"
        /\ (pc = "failed" /\ v.csn # None) => v.modname = None
        /\ pc = "done" =>
               Cardinality(renamed) = (IF opts.boilerplate THEN 5 ELSE 4)
    /\ opts.strict =>
        /\ \A i \in 1..Len(chunks) : InvalidMode(chunks[i]) =>
               i = Len(chunks) /\ pc = "failed" /\ exitcause = "strict"
        /\ HasEventDoc => pc \in {"parse", "rstfile", "failed"}
    /\ exitcause = "strict" =>
           opts.strict /\ pc = "failed" /\ renamed = {}

\* --strict ended the run in vcc.rstfile, its temporary file open
C5_StrictInGenerator ==
    /\ opts.strict /\ HasEventDoc
    /\ pc = "failed" /\ exitcause = "strict" /\ tmpfiles # {}

-----------------------------------------------------------------------------
\* the keywords of the chunks popped so far
Kinds == [k \in 1..Len(chunks) |-> DeclKind(chunks[k])]

\* the last of the first k keywords that is no Method, 0 when there is none
LastTop(kinds, k) ==
    LET tops == {j \in 1..k : kinds[j] # "Method"}
    IN  IF tops = {} THEN 0 ELSE CHOOSE j \in tops : \A i \in tops : i <= j

\* the number of the first k keywords that are no Method
TopCount(kinds, k) == Cardinality({j \in 1..k : kinds[j] # "Method"})

\* the stanzas of contents and their methods are those the declarations
\* of the keywords kinds make, AcceptedLen of them being accepted
MethodsAttached(kinds) ==
    /\ Len(v.contents) = TopCount(kinds, AcceptedLen)
    /\ ClassCount("MethodStanza") = 0
    /\ \A k \in 1..AcceptedLen : kinds[k] = "Method" =>
        /\ LastTop(kinds, k) > 0
        /\ kinds[LastTop(kinds, k)] = "Object"
        /\ v.contents[TopCount(kinds, k)].class = "ObjectStanza"
        /\ Len(Get(v.contents[TopCount(kinds, k)].methods))
               >= k - LastTop(kinds, k)
        /\ Get(v.contents[TopCount(kinds, k)].methods)[k - LastTop(kinds, k)].class
               = "MethodStanza"
        /\ Get(v.contents[TopCount(kinds, k)].methods)[k - LastTop(kinds, k)].toks
               = tokenize(chunks[k].line)
    /\ \A i \in 1..Len(v.contents) : v.contents[i].class = "ObjectStanza" =>
           Len(Get(v.contents[i].methods)) =
               Cardinality({k \in 1..AcceptedLen :
                               kinds[k] = "Method" /\ TopCount(kinds, k) = i})
    /\ \A k \in 1..Len(chunks) :
           (/\ kinds[k] = "Method"
            /\ (LastTop(kinds, k) = 0 \/ kinds[LastTop(kinds, k)] # "Object"))
           => k = Len(chunks) /\ ParseFailed

(* C6: contents holds the accepted declarations that are no $Method, in    *)
(* order, and no MethodStanza; every accepted $Method follows an $Object   *)
(* with only $Methods in between, and is the element of that Object's      *)
(* methods its place among them gives; the methods of an Object are those  *)
(* and no more; a $Method whose preceding top-level declaration is no      *)
(* $Object ends the run.                                                   *)
C6_MethodAttachment == MethodsAttached(Kinds)

\* an Object with its two methods attached in the order declared
C6_TwoMethods ==
    \E i \in 1..Len(v.contents) :
        /\ v.contents[i].class = "ObjectStanza"
        /\ Len(Get(v.contents[i].methods)) = 2
        /\ Get(Get(v.contents[i].methods)[1].proto).name = "o.m"
        /\ Get(Get(v.contents[i].methods)[2].proto).name = "o.n"

-----------------------------------------------------------------------------
(* C7: every AliasStanza of contents has its target declared before it: a  *)
(* plain target is the name of an earlier Function or Object, a dotted     *)
(* alias's target obj.method is a method of the earlier Object obj; every  *)
(* $Alias of an accepted document is in contents, and a refused $Alias     *)
(* adds nothing, with and without --strict.                                *)
C7_AliasResolution ==
    /\ \A i \in 1..Len(v.contents) : v.contents[i].class = "AliasStanza" =>
        IF Char(v.contents[i].toks[2], 1) = "."
        THEN \E j \in 1..(i - 1) :
                /\ v.contents[j].class = "ObjectStanza"
                /\ Get(v.contents[j].proto).name =
                       SplitDotFirst(v.contents[i].toks[3])
                /\ \E m \in 1..Len(Get(v.contents[j].methods)) :
                       Get(Get(v.contents[j].methods)[m].proto).name =
                           v.contents[i].toks[3]
        ELSE \E j \in 1..(i - 1) :
                /\ v.contents[j].class \in {"FunctionStanza", "ObjectStanza"}
                /\ Get(v.contents[j].proto).name = v.contents[i].toks[3]
    /\ ClassCount("AliasStanza") =
           KindCount("Alias") -
           (IF ParseFailed /\ DeclKind(chunks[Len(chunks)]) = "Alias"
            THEN 1 ELSE 0)

\* an accepted alias of a method
C7_MethodAlias ==
    \E i \in 1..Len(v.contents) :
        /\ v.contents[i].class = "AliasStanza"
        /\ v.contents[i].sym_name = Some("o.m")
        /\ v.contents[i].sym_alias = Some("o.a")

-----------------------------------------------------------------------------
(* C8: every prototype of the document (a Function's, an Object's          *)
(* constructor, init and fini, a Method's) has argstruct set if and only   *)
(* if one of its own arguments is optional.                                *)
C8_Argstruct ==
    \A p \in Protos : p.argstruct <=> HasOptional(p)

\* an Object whose constructor has an optional and a required argument
C8_ObjectWithOptional ==
    \E i \in 1..Len(v.contents) :
        /\ v.contents[i].class = "ObjectStanza"
        /\ HasOptional(Get(v.contents[i].proto))
        /\ \E k \in 1..Len(Get(v.contents[i].proto).args) :
               ~Get(v.contents[i].proto).args[k].opt
        /\ Get(v.contents[i].init).argstruct
        /\ ~Get(v.contents[i].fini).argstruct

(* C9: for every prototype with an optional argument the header holds its  *)
(* argument structure, whose members are one char valid_<name> per         *)
(* optional argument, in the order of the arguments, and then one field    *)
(* per argument, optional or not, in the order of the arguments.           *)
C9_FieldOrder ==
    \A e \in Emitted : HasOptional(e[1]) =>
        /\ e[2].argstructure # None
        /\ Len(Get(e[2].argstructure).members) =
               Len(OptArgs(e[1])) + Len(e[1].args)
        /\ \A j \in 1..Len(OptArgs(e[1])) :
               Get(e[2].argstructure).members[j] =
                   [type |-> "char",
                    name |-> "valid_" \o Get(OptArgs(e[1])[j].nm)]
        /\ \A i \in 1..Len(e[1].args) :
               Get(e[2].argstructure).members[Len(OptArgs(e[1])) + i] =
                   [type |-> Get(e[1].args[i].ct),
                    name |-> Get(e[1].args[i].nm2)]

\* the header holds the structure of the arguments (a, [b], c, [d])
C9_FourArguments ==
    \E e \in Emitted :
        /\ e[2].argstructure # None
        /\ [i \in 1..Len(Get(e[2].argstructure).members) |->
               Get(e[2].argstructure).members[i].name]
           = <<"valid_b", "valid_d", "a", "b", "c", "d">>

\* what mkhfile wrote for the Object stanzas: <<stanza, entry of hfile>>
EmittedObjects ==
    IF ~HeaderWritten THEN {}
    ELSE {<<v.contents[i], hfile[i]>> :
             i \in {j \in 1..Len(v.contents) :
                       v.contents[j].class = "ObjectStanza"}}

\* the C types of the arguments a prototype declares
DeclaredTypes(p) == [i \in 1..Len(p.args) |-> Get(p.args[i].ct)]

\* an Object has its constructor prototype and the two made from it
HasInitFini(st) ==
    /\ st.proto # None /\ st.init # None /\ st.fini # None
    /\ Get(st.init).name = Get(st.proto).name \o "__init"
    /\ Get(st.fini).name = Get(st.proto).name \o "__fini"

(* C10 as the specification states it: the parameters of init are two      *)
(* implicit ones followed by the declared arguments, those of fini the     *)
(* one handle.                                                             *)
C10_TwoImplicit ==
    \A o \in EmittedObjects :
        /\ HasInitFini(o[1])
        /\ Len(o[2].init.proto.ll) = 2 + Len(Get(o[1].proto).args)
        /\ SubSeq(o[2].init.proto.ll, 3, Len(o[2].init.proto.ll)) =
               DeclaredTypes(Get(o[1].proto))
        /\ Len(o[2].fini.proto.ll) = 1
        /\ o[2].fini.argstructure = None

(* C10: every Object has init and fini beside its constructor prototype;   *)
(* the parameters of init are the three implicit ones (VRT_CTX, the        *)
(* address of the object pointer, the VCL name) followed by the C types    *)
(* of the declared arguments when none is optional, and by the one         *)
(* pointer to the argument structure when one is; fini has the address of  *)
(* the object pointer for its only parameter, and no argument structure.   *)
C10_ThreeImplicit ==
    \A o \in EmittedObjects :
        /\ HasInitFini(o[1])
        /\ Len(o[2].init.proto.ll) >= 3
        /\ SubSeq(o[2].init.proto.ll, 1, 3) =
               <<"VRT_CTX",
                 "struct VPFX(" \o Get(v.modname) \o "_" \o
                     Get(o[1].proto).name \o ") **",
                 "const char *">>
        /\ SubSeq(o[2].init.proto.ll, 4, Len(o[2].init.proto.ll)) =
               (IF HasOptional(Get(o[1].proto))
                THEN <<"struct VARGS(" \o Get(o[1].proto).name \o "__init)*">>
                ELSE DeclaredTypes(Get(o[1].proto)))
        /\ o[2].init.argstructure # None <=> HasOptional(Get(o[1].proto))
        /\ o[2].fini.proto.ll =
               <<"struct VPFX(" \o Get(v.modname) \o "_" \o
                     Get(o[1].proto).name \o ") **">>
        /\ o[2].fini.argstructure = None

\* the header holds the init and fini of an Object that declared required
\* arguments only
C10_ObjectEmitted ==
    \E o \in EmittedObjects :
        /\ Len(Get(o[1].proto).args) = 2
        /\ ~HasOptional(Get(o[1].proto))
        /\ Len(o[2].init.proto.ll) = 5

-----------------------------------------------------------------------------
(* The protocol listing, read back. *)

\* the listing is written
JsonWritten == written.json # <<>>

\* the entries of the listing after its $VMOD and $CPROTO entries
JsonEntries == SubSeq(written.json, 3, Len(written.json))

\* the entries of the listing under a tag
TaggedEntries(tag) == SelectSeq(JsonEntries, LAMBDA e : e[1] = tag)

\* the declarations of a kind, in input order
ChunksOf(kind) == SelectSeq(chunks, LAMBDA d : DeclKind(d) = kind)

\* the names of the $METHOD entries nested in a $OBJ entry
MethodNames(e) == [i \in 1..(Len(e) - 6) |-> e[6 + i][2]]

\* the names of the $METHOD entries of the first n of the entries es
RECURSIVE AllMethodNames(_, _)
AllMethodNames(es, n) ==
    IF n = 0 THEN <<>> ELSE AllMethodNames(es, n - 1) \o MethodNames(es[n])

\* the place of the first c in s
IndexOf(s, c) ==
    CHOOSE i \in 1..Len(s) :
        Char(s, i) = c /\ \A k \in 1..(i - 1) : Char(s, k) # c

\* the base name a Method declaration spells: what stands between the dot
\* and the opening parenthesis
MethodBase(d) == SubSeq(d.line, IndexOf(d.line, ".") + 1, IndexOf(d.line, "(") - 1)

\* the document of a null-tolerant object and its method
NullOkDoc ==
    <<Decl("Module m 3 \"desc\"", ""),
      Decl("Object NULL_OK foo(STRING s)", ""),
      Decl("Method VOID .destroy()", "")>>

(* C11, as the claim spells its declarations: a document of a Module       *)
(* declaration followed by "$Object NULL_OK foo.new(STRING s)" is          *)
(* accepted.                                                               *)
C11_DottedSpelling ==
    (/\ Len(chunks) = 2
     /\ chunks[1] = NullOkDoc[1]
     /\ chunks[2] = Decl("Object NULL_OK foo.new(STRING s)", ""))
        => pc # "failed"

(* C11: after a Module declaration, "$Object NULL_OK foo(STRING s)"        *)
(* followed by "$Method VOID .destroy()" is accepted, and the listing's    *)
(* $OBJ entry carries NULL_OK true and nests a $METHOD entry named         *)
(* "destroy".  In a listing the NULL_OK flag of every $OBJ entry is true   *)
(* exactly when its declaration carried the NULL_OK marker, and the        *)
(* $METHOD entries are named by the base names of the Method declarations, *)
(* without the object prefix and the dot.  A name spelled with the object  *)
(* before the dot ("foo.new", "foo.destroy") is refused.                   *)
C11_NullOkAndMethodNames ==
    /\ (Len(chunks) \in 1..3 /\ chunks = SubSeq(NullOkDoc, 1, Len(chunks)))
           => pc # "failed"
    /\ (Len(chunks) > 0 /\
        chunks[Len(chunks)].line \in {"Object NULL_OK foo.new(STRING s)",
                                      "Method VOID foo.destroy()"})
           => ParseFailed
    /\ JsonWritten =>
           /\ Len(TaggedEntries("$OBJ")) = Len(ChunksOf("Object"))
           /\ \A k \in 1..Len(TaggedEntries("$OBJ")) :
                  TaggedEntries("$OBJ")[k][3].NULL_OK =
                      StartsWith(ChunksOf("Object")[k].line, "Object NULL_OK ")
           /\ AllMethodNames(TaggedEntries("$OBJ"), Len(TaggedEntries("$OBJ")))
                  = [k \in 1..Len(ChunksOf("Method")) |->
                        MethodBase(ChunksOf("Method")[k])]
    /\ (JsonWritten /\ chunks = NullOkDoc) =>
           /\ JsonEntries[1][3] = [NULL_OK |-> TRUE]
           /\ JsonEntries[1][7][1] = "$METHOD"
           /\ JsonEntries[1][7][2] = "destroy"

\* the listing of the null-tolerant object and its method is written
C11_NullOkListed ==
    /\ pc = "done"
    /\ chunks = NullOkDoc
    /\ Len(JsonEntries) = 1
    /\ Len(JsonEntries[1]) = 7

-----------------------------------------------------------------------------
(* The documentation, read back. *)

\* the text s[lo..hi] without the spaces that stand next to an equals sign
RECURSIVE TightEquals(_, _, _)
TightEquals(s, lo, hi) ==
    IF lo > hi THEN ""
    ELSE IF lo = hi
    THEN (IF /\ Char(s, lo) = " "
             /\ \/ (lo > 1 /\ Char(s, lo - 1) = "=")
                \/ (lo < Len(s) /\ Char(s, lo + 1) = "=")
          THEN "" ELSE Char(s, lo))
    ELSE TightEquals(s, lo, (lo + hi) \div 2) \o
         TightEquals(s, (lo + hi) \div 2 + 1, hi)

\* the heading a Function declaration asks for: its return kind, its name
\* and its argument list as the declaration spells them, a default value
\* set against its argument
Heading(d) == TightEquals(d.line, Len("Function ") + 1, Len(d.line))

\* the terse form of a heading: the text s from its place i on without the
\* sets of enumeration literals and the default values
RECURSIVE Terse(_, _, _)
Terse(s, i, skip) ==
    IF i > Len(s) THEN ""
    ELSE IF skip = "}"
    THEN Terse(s, i + 1, IF Char(s, i) = "}" THEN "" ELSE "}")
    ELSE IF skip = "="
    THEN (IF Char(s, i) \in {",", "]", ")"}
          THEN Char(s, i) \o Terse(s, i + 1, "")
          ELSE Terse(s, i + 1, "="))
    ELSE IF Char(s, i) = " " /\ i < Len(s) /\ Char(s, i + 1) = "{"
    THEN Terse(s, i + 1, "}")
    ELSE IF Char(s, i) = "="
    THEN Terse(s, i + 1, "=")
    ELSE Char(s, i) \o Terse(s, i + 1, "")

\* what the documentation holds for a heading s: the heading itself, or,
\* from 60 characters on, its terse form above a literal block
Headed(entry, s) ==
    IF Len(s) < 60
    THEN entry = [hdr |-> s, literal |-> None]
    ELSE entry.hdr = Terse(s, 1, "") /\ entry.literal # None

\* the heading with the name qualified by the module name
QualifiedHeading(d, ret, modname) ==
    ret \o " " \o modname \o "." \o
    TightEquals(d.line, Len("Function ") + Len(ret) + 2, Len(d.line))

-----------------------------------------------------------------------------
(* Two runs compared. *)

\* the second run has ended
SecondRunEnded == first # None /\ pc \in {"done", "failed"}

-----------------------------------------------------------------------------
(* The enumeration literals of the input, read from its text. *)

\* the literals the blocks {...} of the text s spell from its place i on:
\* the names between the braces and the commas, without their quotes
RECURSIVE Literals(_, _, _, _)
Literals(s, i, inside, cur) ==
    IF i > Len(s) THEN {}
    ELSE IF ~inside THEN Literals(s, i + 1, Char(s, i) = "{", "")
    ELSE IF Char(s, i) \in {",", "}"}
    THEN {cur} \cup Literals(s, i + 1, Char(s, i) = ",", "")
    ELSE IF Char(s, i) \in {" ", "\""} THEN Literals(s, i + 1, TRUE, cur)
    ELSE Literals(s, i + 1, TRUE, cur \o Char(s, i))

\* the literals of the first n chunks
LiteralsUpTo(n) == UNION {Literals(chunks[i].line, 1, FALSE, "") : i \in 1..n}

\* a sequence that holds every element of the set S once, and nothing else
ListsOnce(l, S) == Range(l) = S /\ Len(l) = Cardinality(S)

(* C14: after any sequence of accepted declarations the registry of enum   *)
(* names holds exactly the literals of the {...} blocks of the ENUM kinds  *)
(* (of arguments and of return values) parsed so far, each once; a         *)
(* declaration is never refused for a literal that is registered already   *)
(* or repeated in its block; and the header and the C file list every      *)
(* registered literal exactly once.                                        *)
C14_EnumRegistry ==
    /\ ListsOnce(DictKeys(v.enums), Range(DictKeys(v.enums)))
    /\ ~ParseFailed => Range(DictKeys(v.enums)) = LiteralsUpTo(Len(chunks))
    /\ ParseFailed => DeclKind(chunks[Len(chunks)]) \notin {"Function", "Object"}
    /\ pc \in {"mkcfile", "commit", "done"} =>
           ListsOnce(written.enums, LiteralsUpTo(Len(chunks)))
    /\ pc \in {"commit", "done"} =>
           ListsOnce(written.cenums, LiteralsUpTo(Len(chunks)))

\* the header lists the literals of a document that registers a literal of
\* an argument twice in one block and again in a later declaration, and
\* literals of a return value
C14_SharedLiterals ==
    /\ pc = "done"
    /\ Len(chunks) = 3
    /\ chunks[2].line = "Function INT g(ENUM {a, a, \"q\"})"
    /\ chunks[3].line = "Function ENUM {q, p} f(ENUM {y, x} e, [ENUM {x, a} d = a])"
    /\ written.enums = <<"a", "p", "q", "x", "y">>

-----------------------------------------------------------------------------
(* The module name. *)

\* the places of the Module stanzas in contents
ModulePlaces == {i \in 1..Len(v.contents) : v.contents[i].class = "ModuleStanza"}

\* the first Module stanza of contents
FirstModule == v.contents[CHOOSE i \in ModulePlaces : \A k \in ModulePlaces : i <= k]

(* C15 as the specification states it: in every state reached after the   *)
(* first $Module declaration, the module name, the manual section and the  *)
(* description are those of that first declaration, even if further        *)
(* $Module declarations follow.                                            *)
C15_FirstModuleKept ==
    ModulePlaces # {} =>
        /\ v.modname = Some(FirstModule.toks[2])
        /\ v.mansection = Some(FirstModule.toks[3])
        /\ v.moddesc = Some(unquote(FirstModule.toks[4]))

-----------------------------------------------------------------------------
(* The ABI version. *)

(* C16 as the specification states it: the version text written to the     *)
(* module descriptor is the literal 0 exactly when the ABI mode at the end *)
(* of parsing is strict, and VRT_MAJOR_VERSION / VRT_MINOR_VERSION exactly *)
(* when it is vrt.                                                         *)
C16_VersionFollowsMode ==
    written.vmod_data # None =>
        /\ (/\ Get(written.vmod_data).vrt_major = "0"
            /\ Get(written.vmod_data).vrt_minor = "0")
               <=> v.strict_abi = Some(TRUE)
        /\ (/\ Get(written.vmod_data).vrt_major = "VRT_MAJOR_VERSION"
            /\ Get(written.vmod_data).vrt_minor = "VRT_MINOR_VERSION")
               <=> v.strict_abi = Some(FALSE)

-----------------------------------------------------------------------------
(* The order of the listing. *)

\* the tag of the entry a declaration of a kind is listed under
TagOf(kind) ==
    CASE kind = "Function" -> "$FUNC"
      [] kind = "Object"   -> "$OBJ"
      [] kind = "Event"    -> "$EVENT"
      [] kind = "Alias"    -> "$ALIAS"

\* the declarations that are listed at the top level, in input order
ListedChunks ==
    SelectSeq(chunks,
              LAMBDA d : DeclKind(d) \in {"Function", "Object", "Event", "Alias"})

\* the places of the Object declarations among the chunks, in order
ObjectPlaces ==
    SelectSeq([i \in 1..Len(chunks) |-> i],
              LAMBDA i : DeclKind(chunks[i]) = "Object")

\* the Method declarations that follow the k-th Object declaration, up to
\* the next Object declaration
MethodsAfter(places, k) ==
    SelectSeq(SubSeq(chunks, places[k] + 1,
                     IF k < Len(places) THEN places[k + 1] - 1 ELSE Len(chunks)),
              LAMBDA d : DeclKind(d) = "Method")

\* an $OBJ entry nests $INIT, $FINI and the methods ms, in this order
NestsInOrder(e, ms) ==
    /\ Len(e) = 6 + Len(ms)
    /\ e[5][1] = "$INIT"
    /\ e[6][1] = "$FINI"
    /\ \A i \in 1..Len(ms) :
           e[6 + i][1] = "$METHOD" /\ e[6 + i][2] = MethodBase(ms[i])

(* C17: after its $VMOD and $CPROTO entries the listing holds exactly one  *)
(* tagged entry for each Function, Object, Event and Alias declaration, in *)
(* the order of the declarations in the input; every $OBJ entry nests      *)
(* $INIT, then $FINI, then one $METHOD entry for each Method declared for  *)
(* the object, in the order of the Method declarations; Module, Prefix,    *)
(* ABI and Synopsis declarations have no entry.                            *)
C17_ListingOrder ==
    JsonWritten =>
        /\ written.json[1][1] = "$VMOD"
        /\ written.json[2][1] = "$CPROTO"
        /\ [i \in 1..Len(JsonEntries) |-> JsonEntries[i][1]] =
               [i \in 1..Len(ListedChunks) |-> TagOf(DeclKind(ListedChunks[i]))]
        /\ Len(TaggedEntries("$OBJ")) = Len(ObjectPlaces)
        /\ \A k \in 1..Len(ObjectPlaces) :
               k <= Len(TaggedEntries("$OBJ")) =>
                   NestsInOrder(TaggedEntries("$OBJ")[k],
                                MethodsAfter(ObjectPlaces, k))

\* the listing of a document with an event and an object with a method is
\* written
C17_NestedListing ==
    /\ pc = "done"
    /\ Len(chunks) = 4
    /\ [i \in 1..4 |-> DeclKind(chunks[i])] = <<"Module", "Event", "Object", "Method">>
    /\ Len(JsonEntries) = 2
    /\ Len(JsonEntries[2]) = 7

-----------------------------------------------------------------------------
(* The entries of the arguments in the listing. *)

\* the five positions of an argument: kind, name, default, literals, flag
Positions(a) ==
    <<Some(a.vt), a.nm, a.defval, a.spec, IF a.opt THEN Some(TRUE) ELSE None>>

\* the entry e is the positions of the argument a up to the last one that
\* is filled
TrimmedPositions(a, e) ==
    /\ Len(e) \in 1..5
    /\ e[1] = Some(a.vt)
    /\ e[Len(e)] # None
    /\ \A i \in 1..5 :
           IF i <= Len(e) THEN e[i] = Positions(a)[i] ELSE Positions(a)[i] = None
    /\ Len(e) = 5 <=> a.opt

\* the list ll of a prototype p holds an entry for each argument of p after
\* its three leading elements
ArgEntries(p, ll) ==
    /\ Len(ll) = 3 + Len(p.args)
    /\ \A i \in 1..Len(p.args) : TrimmedPositions(p.args[i], ll[3 + i])

\* the stanzas that are listed at the top level
ListedStanzas ==
    SelectSeq(v.contents,
              LAMBDA st : st.class \in {"FunctionStanza", "ObjectStanza",
                                        "EventStanza", "AliasStanza"})

\* the entry e lists the arguments of the prototypes of the stanza st
ListsArguments(st, e) ==
    CASE st.class = "FunctionStanza" -> ArgEntries(Get(st.proto), e[3])
      [] st.class = "ObjectStanza" ->
             /\ ArgEntries(Get(st.init), e[5][2])
             /\ ArgEntries(Get(st.fini), e[6][2])
             /\ Len(e) = 6 + Len(Get(st.methods))
             /\ \A i \in 1..Len(Get(st.methods)) :
                    ArgEntries(Get(Get(st.methods)[i].proto), e[6 + i][3])
      [] OTHER -> TRUE

(* C18: in the listing the entry of every argument of every prototype is   *)
(* the positional list [kind, name, default, literals, optional flag] cut  *)
(* after its last filled position: the kind comes first, an empty position *)
(* before a filled one is kept as null, the entry never ends in null, and  *)
(* it has its fifth position, true, exactly when the argument is optional. *)
(* The required "INT n" is listed as ["INT", "n"], an unnamed "INT" as     *)
(* ["INT"].                                                                *)
C18_ArgumentEntries ==
    JsonWritten =>
        /\ Len(JsonEntries) = Len(ListedStanzas)
        /\ \A k \in 1..Len(ListedStanzas) :
               k <= Len(JsonEntries) =>
                   ListsArguments(ListedStanzas[k], JsonEntries[k])
        /\ Len(chunks) = Len(ProtoDoc) =>
               /\ Len(JsonEntries) >= 3
               /\ JsonEntries[3][3][4] = <<Some("INT"), Some("n")>>
        /\ (Len(chunks) >= 2 /\ arglist = "INT") =>
               JsonEntries[1][3][4] = <<Some("INT")>>

\* the listing holds the entries of a required argument with literals and
\* no default, of an unnamed argument and of an optional argument
C18_InteriorNull ==
    /\ pc = "done"
    /\ arglist = "ENUM {x, y} e, INT, [INT b]"
    /\ Len(chunks) = Len(ProtoDoc)
    /\ Len(JsonEntries[1][3]) = 6
    /\ JsonEntries[1][3][4] = <<Some("ENUM"), Some("e"), None, Some(<<"x", "y">>)>>
    /\ JsonEntries[1][3][5] = <<Some("INT")>>
    /\ JsonEntries[1][3][6] = <<Some("INT"), Some("b"), None, None, Some(TRUE)>>

-----------------------------------------------------------------------------
(* The fields of the argument structure. *)

\* the names of the members of an argument structure, in order
MemberNames(s) == [i \in 1..Len(s.members) |-> s.members[i].name]

(* C20 as the specification implies it: the fields of every argument       *)
(* structure written to the header have pairwise distinct names.           *)
C20_DistinctFields ==
    \A e \in Emitted :
        e[2].argstructure # None =>
            Cardinality(Range(MemberNames(Get(e[2].argstructure)))) =
                Len(Get(e[2].argstructure).members)

-----------------------------------------------------------------------------
(* The tokens of a text, against the text. *)

\* the quote that is open after the first i characters of txt, "" for none
RECURSIVE QuoteAfter(_, _)
QuoteAfter(txt, i) ==
    IF i = 0 THEN ""
    ELSE IF QuoteAfter(txt, i - 1) # ""
    THEN (IF Char(txt, i) = QuoteAfter(txt, i - 1) THEN ""
          ELSE QuoteAfter(txt, i - 1))
    ELSE IF Char(txt, i) \in Quotes THEN Char(txt, i)
    ELSE ""

\* the character at the place i of txt opens a quoted run
OpensRun(txt, i) == QuoteAfter(txt, i - 1) = "" /\ Char(txt, i) \in Quotes

\* the character at the place i of txt belongs to a quoted run
InRun(txt, i) == QuoteAfter(txt, i - 1) # "" \/ Char(txt, i) \in Quotes

\* the first n characters of txt without the whitespace outside the runs
RECURSIVE Unspaced(_, _)
Unspaced(txt, n) ==
    IF n = 0 THEN ""
    ELSE Unspaced(txt, n - 1) \o
         (IF IsSpace(Char(txt, n)) /\ ~InRun(txt, n) THEN "" ELSE Char(txt, n))

\* the characters of a token
CharsOf(t) == {Char(t, j) : j \in 1..Len(t)}

\* the token t, the k-th of n, is a quoted run: it goes from its quote up
\* to the next quote of the same kind, or, when none follows, it is the
\* last token
QuotedRun(t, k, n) ==
    \/ /\ Len(t) >= 2
       /\ Char(t, Len(t)) = Char(t, 1)
       /\ \A j \in 2..(Len(t) - 1) : Char(t, j) # Char(t, 1)
    \/ /\ \A j \in 2..Len(t) : Char(t, j) # Char(t, 1)
       /\ k = n

\* the tokens out are what the text txt asks for
TokensOf(txt, out) ==
    /\ Join("", out) = Unspaced(txt, Len(txt))
    /\ \A k \in 1..Len(out) :
           /\ Len(out[k]) >= 1
           /\ Char(out[k], 1) \in Seps => Len(out[k]) = 1
           /\ Char(out[k], 1) \in Quotes => QuotedRun(out[k], k, Len(out))
           /\ Char(out[k], 1) \notin (Seps \cup Quotes) =>
                  \A c \in CharsOf(out[k]) :
                      c \notin (Seps \cup Quotes) /\ ~IsSpace(c)
    /\ Cardinality({k \in 1..Len(out) : Char(out[k], 1) \in Seps}) =
           Cardinality({i \in 1..Len(txt) :
                            Char(txt, i) \in Seps /\ ~InRun(txt, i)})
    /\ Cardinality({k \in 1..Len(out) : Char(out[k], 1) \in Quotes}) =
           Cardinality({i \in 1..Len(txt) : OpensRun(txt, i)})

(* C19: for every text the tokenizer emits each separator that stands      *)
(* outside a quoted run as a token of that one character; no token holds   *)
(* whitespace that stood outside a quoted run; a quote opens a run that is *)
(* copied as it stands, whitespace and separators with it, into one token  *)
(* up to and with the matching quote, or to the end of the text when the   *)
(* quote is never closed; and the tokens joined in order are the text      *)
(* without its unquoted whitespace.                                        *)
C19_Tokens ==
    Len(chunks) = 1 => TokensOf(chunks[1].line, lasttoks)

\* a text of a separator and a run that is never closed, with a blank and
\* a separator inside it, is tokenized
C19_UnclosedRun ==
    /\ Len(chunks) = 1
    /\ chunks[1].line = "(\" ="
    /\ lasttoks = <<"(", "\" =">>

=============================================================================
